---- MODULE Spec2Model ----
(***************************************************************************)
(* django-autowired: parameter binding for Django views.                   *)
(*                                                                         *)
(* The module models the request converters (RequestConverter.to_args and  *)
(* RequestConverter.to_body), the dependency tree (Dependant.flat and      *)
(* Dependant.get_body_field), the route built at registration time         *)
(* (ViewRoute.__init__), the wrapper returned by the autowired decorator   *)
(* (Autowired.__call__.decorator.inner), serialize_response and the        *)
(* exception middleware (AutoWiredExceptionMiddleware.process_exception).  *)
(***************************************************************************)
EXTENDS Integers, Sequences, FiniteSets, TLC

(***************************************************************************)
(* Python values.  Every value is a record of one shape, so that any two   *)
(* values can be compared: t is the Python type, n the payload of an int,  *)
(* s the payload of a str, d the items of a mapping (dict, QueryDict,      *)
(* MultiValueDict, a validated BaseModel), l the items of a list.  ref     *)
(* tells objects apart: "field.default" is the very object stored as the   *)
(* default of a field specification, "" any other object.                  *)
(***************************************************************************)
None == [t |-> "None", n |-> 0, s |-> "", d |-> <<>>, l |-> <<>>, ref |-> ""]

IntV(n) == [None EXCEPT !.t = "int", !.n = n]

StrV(s) == [None EXCEPT !.t = "str", !.s = s]

ListV(l) == [None EXCEPT !.t = "list", !.l = l]

DictV(d) == [None EXCEPT !.t = "dict", !.d = d]

QueryDictV(d) == [None EXCEPT !.t = "QueryDict", !.d = d]

MultiValueDictV(d) == [None EXCEPT !.t = "MultiValueDict", !.d = d]

ItemV(d) == [None EXCEPT !.t = "Item", !.d = d]

\* Python truthiness: None, 0, "", an empty list and an empty mapping are falsy.
Truthy(v) ==
    CASE v.t = "None" -> FALSE
      [] v.t = "int" -> v.n # 0
      [] v.t = "str" -> v.s # ""
      [] v.t = "list" -> v.l # <<>>
      [] OTHER -> DOMAIN v.d # {}

\* isinstance(x, QueryDict)
isinstance_QueryDict(x) == x.t = "QueryDict"

\* isinstance(x, MultiValueDict); QueryDict is a subclass of MultiValueDict.
isinstance_MultiValueDict(x) == x.t \in {"QueryDict", "MultiValueDict"}

\* Whether x has a .get method: dict, QueryDict and MultiValueDict have one,
\* None, int, str and list raise AttributeError.
has_get(x) == x.t \in {"dict", "QueryDict", "MultiValueDict"}

\* dict.get(key) / MultiValueDict.get(key): the value under key, the last value
\* of the list for a multi-value mapping, None when key is absent or its list
\* is empty.
get(x, key) ==
    IF key \notin DOMAIN x.d THEN None
    ELSE IF isinstance_MultiValueDict(x)
         THEN IF x.d[key].l = <<>> THEN None ELSE x.d[key].l[Len(x.d[key].l)]
         ELSE x.d[key]

\* MultiValueDict.getlist(key): every value under key, [] when key is absent.
getlist(x, key) == IF key \notin DOMAIN x.d THEN ListV(<<>>) ELSE x.d[key]

\* Python's "a or b".
or(a, b) == IF Truthy(a) THEN a ELSE b

\* The default object a field specification stores.
Stored(v) == [v EXCEPT !.ref = "field.default"]

RECURSIVE fresh(_)
\* A new object equal to v, its items new objects as well.
fresh(v) ==
    [v EXCEPT !.ref = "",
              !.l = IF v.l = <<>> THEN <<>> ELSE [k \in DOMAIN v.l |-> fresh(v.l[k])],
              !.d = IF DOMAIN v.d = {} THEN v.d
                    ELSE [k \in DOMAIN v.d |-> fresh(v.d[k])]]

\* Handing on the object itself.
no_copy(v) == v

\* copy.deepcopy
deepcopy(v) == fresh(v)

\* values[name] = v on a Python dict.
SetItem(values, name, v) ==
    [k \in DOMAIN values \cup {name} |-> IF k = name THEN v ELSE values[k]]

(***************************************************************************)
(* Field specifications (pydantic ModelField with its FieldInfo).          *)
(*   name, alias     parameter name and wire name                          *)
(*   type_, shape    "int" | "str" | "Item"; "singleton" | "list"          *)
(*   required, default, allow_none                                         *)
(*   gt              exclusive lower bound of an int field, None if none   *)
(*   field_info      cls: Path|Query|Header|Cookie|Body|Form|File,         *)
(*                   in_: path|query|header|cookie ("" for a body class),  *)
(*                   embed, media_type                                     *)
(***************************************************************************)
FieldInfo(cls, in_, embed, media_type) ==
    [cls |-> cls, in_ |-> in_, embed |-> embed, media_type |-> media_type]

ModelField(name, alias, type_, shape, required, default, allow_none, gt, field_info) ==
    [name |-> name, alias |-> alias, type_ |-> type_, shape |-> shape,
     required |-> required, default |-> default, allow_none |-> allow_none,
     gt |-> gt, field_info |-> field_info]

\* isinstance(field_info, params.Param): the four non-body classes.
isinstance_Param(field_info) == field_info.cls \in {"Path", "Query", "Header", "Cookie"}

\* An error of the error list: ErrorWrapper(exc, loc).
ErrorWrapper(type, loc) == [type |-> type, loc |-> loc]

\* get_missing_field_error(loc) and ErrorWrapper(MissingError(), loc=loc)
get_missing_field_error(loc) == ErrorWrapper("value_error.missing", loc)

(***************************************************************************)
(* pydantic's ModelField.validate(v, values, loc=loc), as far as the field *)
(* types of this model go.  It returns (value, errors); errors is None on  *)
(* success, modelled as the empty sequence, otherwise one ErrorWrapper or  *)
(* a list of them, modelled as a non-empty sequence.                       *)
(***************************************************************************)
\* int("<digits>") and str(<int>) on the texts and numbers that occur.
Digits == ("0" :> 0) @@ ("1" :> 1) @@ ("2" :> 2) @@ ("3" :> 3)

IntStr(n) == CHOOSE s \in DOMAIN Digits : Digits[s] = n

Validated(value, errors) == [value |-> value, errors |-> errors]

\* The validators of one element of declared type field.type_.
validate_singleton(field, v, loc) ==
    CASE field.type_ = "Any" -> Validated(v, <<>>)
      [] field.type_ = "int" ->
           IF v.t = "int" \/ (v.t = "str" /\ v.s \in DOMAIN Digits)
           THEN LET n == IF v.t = "int" THEN v.n ELSE Digits[v.s]
                IN IF field.gt # None /\ ~(n > field.gt.n)
                   THEN Validated(v, <<ErrorWrapper("value_error.number.not_gt", loc)>>)
                   ELSE Validated(IntV(n), <<>>)
           ELSE Validated(v, <<ErrorWrapper("type_error.integer", loc)>>)
      [] field.type_ = "str" ->
           IF v.t = "str" THEN Validated(v, <<>>)
           ELSE IF v.t = "int" THEN Validated(StrV(IntStr(v.n)), <<>>)
           ELSE Validated(v, <<ErrorWrapper("type_error.str", loc)>>)
      [] OTHER ->
           \* a BaseModel with one required property, id: int
           IF v.t \notin {"dict", "Item"}
           THEN Validated(v, <<ErrorWrapper("type_error.dict", loc)>>)
           ELSE IF "id" \notin DOMAIN v.d
           THEN Validated(v, <<ErrorWrapper("value_error.missing", loc \o <<StrV("id")>>)>>)
           ELSE IF v.d["id"].t = "int"
                   \/ (v.d["id"].t = "str" /\ v.d["id"].s \in DOMAIN Digits)
           THEN Validated(ItemV([k \in {"id"} |->
                    IF v.d["id"].t = "int" THEN v.d["id"]
                    ELSE IntV(Digits[v.d["id"].s])]), <<>>)
           ELSE Validated(v, <<ErrorWrapper("type_error.integer", loc \o <<StrV("id")>>)>>)

RECURSIVE validate_items(_, _, _, _)
\* The elements i.. of a list value, each at loc + (index,).
validate_items(field, l, loc, i) ==
    IF i > Len(l) THEN Validated(<<>>, <<>>)
    ELSE LET head == validate_singleton(field, l[i], loc \o <<IntV(i - 1)>>)
             rest == validate_items(field, l, loc, i + 1)
         IN Validated(<<head.value>> \o rest.value, head.errors \o rest.errors)

validate(field, v, loc) ==
    IF v = None
    THEN IF field.allow_none THEN Validated(None, <<>>)
         ELSE Validated(v, <<ErrorWrapper("type_error.none.not_allowed", loc)>>)
    ELSE IF field.shape = "list"
    THEN IF v.t # "list" THEN Validated(v, <<ErrorWrapper("type_error.list", loc)>>)
         ELSE LET r == validate_items(field, v.l, loc, 1)
              IN IF r.errors # <<>> THEN Validated(v, r.errors)
                 ELSE Validated(ListV(r.value), <<>>)
    ELSE validate_singleton(field, v, loc)

\* DependantUtils.is_scalar_sequence_field: a sequence shape whose element
\* type is no BaseModel.
is_scalar_sequence_field(field) == field.shape = "list" /\ field.type_ # "Item"

(***************************************************************************)
(* RequestConverter.to_args                                                *)
(***************************************************************************)
\* The raw value of a field: every value under the alias for a sequence field
\* read from a QueryDict (the field's default when there is none), else
\* param_values.get(alias).
look_up(field, param_values) ==
    IF is_scalar_sequence_field(field) /\ isinstance_QueryDict(param_values)
    THEN or(getlist(param_values, field.alias), field.default)
    ELSE get(param_values, field.alias)

\* The error location of a non-body field: (field_info.in_.value, field.alias).
param_loc(field) == <<StrV(field.field_info.in_), StrV(field.alias)>>

\* Storing under the wire alias instead of the parameter name.
bind_key_alias(field) == field.alias

\* The key a validated value is stored under: values[field.name].
bind_key(field) == field.name

RECURSIVE to_args_from(_, _, _, _, _)
\* The loop of to_args over the fields i.. of param_fields.
to_args_from(param_fields, param_values, i, values, errors) ==
    IF i > Len(param_fields) THEN [values |-> values, errors |-> errors]
    ELSE
    LET field == param_fields[i]
        looked_up == look_up(field, param_values)
    IN  IF looked_up = None /\ field.required
        THEN to_args_from(param_fields, param_values, i + 1, values,
                 Append(errors, ErrorWrapper("value_error.missing", param_loc(field))))
        ELSE
        LET value == IF looked_up = None THEN deepcopy(field.default) ELSE looked_up
            validated == validate(field, value, param_loc(field))
        IN  IF validated.errors # <<>>
            THEN to_args_from(param_fields, param_values, i + 1, values,
                              errors \o validated.errors)
            ELSE to_args_from(param_fields, param_values, i + 1,
                              SetItem(values, bind_key(field), validated.value), errors)

\* to_args that returns at the first missing required field.
to_args_fail_fast(param_fields, param_values) ==
    LET missing == {i \in DOMAIN param_fields :
                      param_fields[i].required
                      /\ look_up(param_fields[i], param_values) = None}
        stop == IF missing = {} THEN Len(param_fields)
                ELSE CHOOSE i \in missing : \A j \in missing : i <= j
    IN  to_args_from(SubSeq(param_fields, 1, stop), param_values, 1, <<>>, <<>>)

to_args(param_fields, param_values) ==
    to_args_from(param_fields, param_values, 1, <<>>, <<>>)

(***************************************************************************)
(* RequestConverter.to_body                                                *)
(***************************************************************************)
\* field.shape in SEQUENCE_SHAPES or field.type_ in SEQUENCE_TYPES
is_sequence_shaped(field) == field.shape = "list"

\* field_alias_omitted: one field, and its field_info not marked embed.
field_alias_omitted(param_fields) ==
    Len(param_fields) = 1 /\ ~param_fields[1].field_info.embed

\* The error location of a body field.
body_loc(field, omitted) ==
    IF omitted THEN <<StrV("body")>> ELSE <<StrV("body"), StrV(field.alias)>>

\* What the last branch of the loop does with the outcome of field.validate.
\* The code tests isinstance(errors, list), its own error list, which always
\* holds: with validate_errors None, errors.extend(None) raises TypeError and
\* "values[field.name] = validate_value" is never reached.
after_validate(field, validated, values, errors) ==
    IF validated.errors # <<>>
    THEN [values |-> values, errors |-> errors \o validated.errors, exc |-> ""]
    ELSE [values |-> values, errors |-> errors, exc |-> "TypeError"]

RECURSIVE to_body_from(_, _, _, _, _, _)
\* The loop of to_body over the fields i.. of param_fields; body is the body
\* after wrapping, omitted is field_alias_omitted.
to_body_from(param_fields, body, omitted, i, values, errors) ==
    IF i > Len(param_fields) THEN [values |-> values, errors |-> errors, exc |-> ""]
    ELSE
    LET field == param_fields[i]
        loc == body_loc(field, omitted)
    IN  IF body # None /\ ~(is_sequence_shaped(field) /\ isinstance_MultiValueDict(body))
           /\ ~has_get(body)
        THEN \* body.get raises AttributeError
             to_body_from(param_fields, body, omitted, i + 1, values,
                          Append(errors, get_missing_field_error(loc)))
        ELSE
        LET value == IF body = None THEN None
                     ELSE IF is_sequence_shaped(field) /\ isinstance_MultiValueDict(body)
                     THEN getlist(body, field.alias)
                     ELSE get(body, field.alias)
            errors1 == IF ~Truthy(value) /\ field.required
                       THEN Append(errors, get_missing_field_error(loc))
                       ELSE errors
            values1 == IF ~Truthy(value) /\ ~field.required
                       THEN SetItem(values, field.name, deepcopy(field.default))
                       ELSE values
            step == after_validate(field, validate(field, value, loc), values1, errors1)
        IN  IF step.exc # "" THEN step
            ELSE to_body_from(param_fields, body, omitted, i + 1, step.values, step.errors)

to_body(param_fields, body, is_body_form) ==
    IF param_fields = <<>> THEN [values |-> <<>>, errors |-> <<>>, exc |-> ""]
    ELSE LET omitted == field_alias_omitted(param_fields)
             wrapped == IF omitted
                        THEN DictV([k \in {param_fields[1].alias} |-> body])
                        ELSE body
         IN  to_body_from(param_fields, wrapped, omitted, 1, <<>>, <<>>)

(***************************************************************************)
(* Dependant: one callable of the dependency tree.  The parent reference   *)
(* of the code is left out: nothing reads it.                              *)
(***************************************************************************)
Dependant(call_, ismethod, is_view_func, path_params, query_params, header_params, cookie_params, body_params, dependencies, request_param_name) ==
    [call |-> call_, ismethod |-> ismethod, is_view_func |-> is_view_func,
     path_params |-> path_params, query_params |-> query_params,
     header_params |-> header_params, cookie_params |-> cookie_params,
     body_params |-> body_params, dependencies |-> dependencies,
     request_param_name |-> request_param_name]

\* Dependant(path_params=..., ...): the node flat() starts from.
FlatDependant(path_params, query_params, header_params, cookie_params, body_params) ==
    Dependant("", FALSE, FALSE, path_params, query_params, header_params,
              cookie_params, body_params, <<>>, "")

RECURSIVE flat(_)
RECURSIVE flat_extend(_, _, _)
RECURSIVE flat_extend_prepending(_, _, _)
\* The loop of flat with each sub-dependency's lists put before what was
\* collected so far.
flat_extend_prepending(flat_dependant, dependencies, i) ==
    IF i > Len(dependencies) THEN flat_dependant
    ELSE LET sub_dependant == flat(dependencies[i])
         IN  flat_extend_prepending(
                 FlatDependant(
                     sub_dependant.path_params \o flat_dependant.path_params,
                     sub_dependant.query_params \o flat_dependant.query_params,
                     sub_dependant.header_params \o flat_dependant.header_params,
                     sub_dependant.cookie_params \o flat_dependant.cookie_params,
                     sub_dependant.body_params \o flat_dependant.body_params),
                 dependencies, i + 1)

\* The loop of flat over the sub-dependencies i.. of dependencies.
flat_extend(flat_dependant, dependencies, i) ==
    IF i > Len(dependencies) THEN flat_dependant
    ELSE LET sub_dependant == flat(dependencies[i])
         IN  flat_extend(
                 FlatDependant(
                     flat_dependant.path_params \o sub_dependant.path_params,
                     flat_dependant.query_params \o sub_dependant.query_params,
                     flat_dependant.header_params \o sub_dependant.header_params,
                     flat_dependant.cookie_params \o sub_dependant.cookie_params,
                     flat_dependant.body_params \o sub_dependant.body_params),
                 dependencies, i + 1)

\* No copy: the list itself.
list_alias(l) == [items |-> l, same_object |-> TRUE]

\* list.copy(): a new list object that holds the same items; same_object says
\* whether the list returned is the list copied.
list_copy(l) == [items |-> l, same_object |-> FALSE]

flat(self) ==
    flat_extend(FlatDependant(list_copy(self.path_params).items,
                              list_copy(self.query_params).items,
                              list_copy(self.header_params).items,
                              list_copy(self.cookie_params).items,
                              list_copy(self.body_params).items),
                self.dependencies, 1)

\* The list a node holds after flat(): extend() is applied to the list
\* flat_dependant holds, which grows the node's own list only if it is the
\* same object.
list_after_flat(own, flattened) ==
    IF list_copy(own).same_object THEN flattened ELSE own

RECURSIVE self_after_flat(_)
\* The node flat() leaves behind, its sub-dependencies included.
self_after_flat(self) ==
    [self EXCEPT
        !.path_params = list_after_flat(@, flat(self).path_params),
        !.query_params = list_after_flat(@, flat(self).query_params),
        !.header_params = list_after_flat(@, flat(self).header_params),
        !.cookie_params = list_after_flat(@, flat(self).cookie_params),
        !.body_params = list_after_flat(@, flat(self).body_params),
        !.dependencies = [i \in DOMAIN @ |-> self_after_flat(@[i])]]

\* The class tests of django_autowired.params: File is a Form, Form is a Body.
isinstance_Body(field_info) == field_info.cls \in {"Body", "Form", "File"}

isinstance_Form(field_info) == field_info.cls \in {"Form", "File"}

isinstance_File(field_info) == field_info.cls = "File"

\* No field: the None of Optional[ModelField].
NoField ==
    ModelField("", "", "", "", FALSE, None, FALSE, None, FieldInfo("", "", FALSE, ""))

\* getattr(first_param, "embed", False): a pydantic ModelField has no
\* attribute embed (the marker lives on its field_info), so the default.
first_param_embed(first_param) == FALSE

\* Whether get_body_field returns the first body field itself.
returns_first_param(body_params) ==
    /\ Cardinality({body_params[i].name : i \in DOMAIN body_params}) = 1
    /\ ~first_param_embed(body_params[1])

\* The class of the composite's field_info with Form tested before File.
BodyFieldInfo_form_first(body_params) ==
    IF \E i \in DOMAIN body_params : isinstance_Form(body_params[i].field_info)
    THEN "Form"
    ELSE IF \E i \in DOMAIN body_params : isinstance_File(body_params[i].field_info)
    THEN "File"
    ELSE "Body"

\* The class of the composite's field_info: File, else Form, else Body.
BodyFieldInfo(body_params) ==
    IF \E i \in DOMAIN body_params : isinstance_File(body_params[i].field_info)
    THEN "File"
    ELSE IF \E i \in DOMAIN body_params : isinstance_Form(body_params[i].field_info)
    THEN "Form"
    ELSE "Body"

\* The default media type of each params class.
default_media_type(cls) ==
    CASE cls = "File" -> "multipart/form-data"
      [] cls = "Form" -> "application/x-www-form-urlencoded"
      [] OTHER -> "application/json"

\* The media type of a composite that is never given one: the default of its
\* class.
body_media_type_default(body_params) == default_media_type(BodyFieldInfo(body_params))

\* The media type of the composite: for a Body composite the one media type
\* the Body fields carry when they carry exactly one, else the default.
body_media_type(body_params) ==
    LET cls == BodyFieldInfo(body_params)
        body_param_media_types ==
            {body_params[i].field_info.media_type :
                i \in {j \in DOMAIN body_params : isinstance_Body(body_params[j].field_info)}}
    IN  IF cls = "Body" /\ Cardinality(body_param_media_types) = 1
        THEN CHOOSE m \in body_param_media_types : TRUE
        ELSE default_media_type(cls)

\* BodyModel.__fields__ after the loop "BodyModel.__fields__[param.name] = param",
\* every param marked embed.
BodyModel_fields(body_params) ==
    [name \in {body_params[i].name : i \in DOMAIN body_params} |->
        LET last == CHOOSE i \in DOMAIN body_params :
                        /\ body_params[i].name = name
                        /\ \A j \in DOMAIN body_params :
                               body_params[j].name = name => j <= i
        IN  [body_params[last] EXCEPT !.field_info.embed = TRUE]]

\* required = all(...): a composite required only when every field is.
composite_required_all(body_params) ==
    \A i \in DOMAIN body_params : body_params[i].required

\* required = any(True for f in flat_dependant.body_params if f.required)
composite_required(body_params) ==
    \E i \in DOMAIN body_params : body_params[i].required

\* get_body_field: field is the body field (NoField for None), composite says
\* whether it was synthesized and fields is then BodyModel.__fields__.
get_body_field(self) ==
    LET body_params == flat(self).body_params
    IN  IF body_params = <<>>
        THEN [field |-> NoField, composite |-> FALSE, fields |-> <<>>]
        ELSE IF returns_first_param(body_params)
        THEN [field |-> body_params[1], composite |-> FALSE, fields |-> <<>>]
        ELSE [field |-> ModelField("body", "body", "BodyModel", "singleton",
                            composite_required(body_params),
                            None,
                            ~composite_required(body_params),
                            None,
                            FieldInfo(BodyFieldInfo(body_params), "", FALSE,
                                      body_media_type(body_params))),
              composite |-> TRUE,
              fields |-> BodyModel_fields(body_params)]

\* setattr(param.field_info, "embed", True) on every field of a list.
set_embed(params) == [i \in DOMAIN params |-> [params[i] EXCEPT !.field_info.embed = TRUE]]

RECURSIVE mark_embed(_)
\* The tree after get_body_field has synthesized a composite: the body fields
\* of every node are the objects get_body_field marked.
mark_embed(self) ==
    [self EXCEPT !.body_params = set_embed(self.body_params),
                 !.dependencies = [i \in DOMAIN self.dependencies |->
                                      mark_embed(self.dependencies[i])]]

\* The tree get_body_field leaves behind.
after_get_body_field(self) ==
    IF get_body_field(self).composite THEN mark_embed(self_after_flat(self))
    ELSE self_after_flat(self)

(***************************************************************************)
(* Signatures.  An inspect.Parameter is its name, its annotation (the      *)
(* element type, the shape and whether it is Optional; type "" for none)   *)
(* and its default: nothing, a plain value, a params marker or a Depends.  *)
(***************************************************************************)
\* pydantic.fields.Required, the Ellipsis.
Required == [None EXCEPT !.t = "Ellipsis"]

NoDefault ==
    [kind |-> "empty", value |-> None, cls |-> "", alias |-> "", gt |-> None,
     embed |-> FALSE, convert_underscores |-> FALSE, dependency |-> ""]

\* A plain default value: limit: Optional[int] = 3
Default(value) == [NoDefault EXCEPT !.kind = "value", !.value = value]

\* param_func.Path(default, gt=gt) and the other markers of param_func.
Path(default, gt) ==
    [NoDefault EXCEPT !.kind = "FieldInfo", !.cls = "Path", !.value = default, !.gt = gt]

Query(default, alias, gt) ==
    [NoDefault EXCEPT !.kind = "FieldInfo", !.cls = "Query", !.value = default,
                      !.alias = alias, !.gt = gt]

Header(default) ==
    [NoDefault EXCEPT !.kind = "FieldInfo", !.cls = "Header", !.value = default,
                      !.convert_underscores = TRUE]

Cookie(default) ==
    [NoDefault EXCEPT !.kind = "FieldInfo", !.cls = "Cookie", !.value = default]

Body(default, embed) ==
    [NoDefault EXCEPT !.kind = "FieldInfo", !.cls = "Body", !.value = default,
                      !.embed = embed]

\* param_func.Depends(dependency)
Depends(dependency) == [NoDefault EXCEPT !.kind = "Depends", !.dependency = dependency]

\* The in_ of each params class, as the text of its ParamTypes value.
in_of(cls) ==
    CASE cls = "Path" -> "path"
      [] cls = "Query" -> "query"
      [] cls = "Header" -> "header"
      [] cls = "Cookie" -> "cookie"
      [] OTHER -> ""

Parameter(name, type_, shape, optional, default) ==
    [name |-> name, type_ |-> type_, shape |-> shape, optional |-> optional,
     default |-> default]

\* self, and request: HttpRequest
self_param == Parameter("self", "", "singleton", FALSE, NoDefault)

request_param == Parameter("request", "HttpRequest", "singleton", FALSE, NoDefault)

\* The view functions that are decorated.
ViewFuncs ==
    {"ClassQueryView.get", "deps_view", "func_view", "query_item_view",
     "ClassBodyView.post", "no_params_view", "self_only_view",
     "no_request_view", "NoRequestView.get"}

\* The callables that are given to Depends.
Dependencies == {"common", "pagination", "item_query", "no_params"}

\* inspect.signature of every callable.
Signature ==
    [f \in ViewFuncs \cup Dependencies |->
        CASE f = "ClassQueryView.get" ->
               \* def get(self, request: HttpRequest, name: str, id: int = Path(gt=1))
               <<self_param, request_param,
                 Parameter("name", "str", "singleton", FALSE, NoDefault),
                 Parameter("id", "int", "singleton", FALSE, Path(Required, IntV(1)))>>
          [] f = "deps_view" ->
               \* def deps_view(request, a=Depends(common), b=Depends(common))
               <<request_param,
                 Parameter("a", "", "singleton", FALSE, Depends("common")),
                 Parameter("b", "", "singleton", FALSE, Depends("common"))>>
          [] f = "common" ->
               \* def common(q: int)
               <<Parameter("q", "int", "singleton", FALSE, NoDefault)>>
          [] f = "item_query" ->
               \* def item_query(item: Item = Query(...))
               <<Parameter("item", "Item", "singleton", FALSE, Query(Required, "", None))>>
          [] f = "pagination" ->
               \* def pagination(page: int)
               <<Parameter("page", "int", "singleton", FALSE, NoDefault)>>
          [] f = "func_view" ->
               \* def func_view(request)
               <<Parameter("request", "", "singleton", FALSE, NoDefault)>>
          [] f = "query_item_view" ->
               \* def query_item_view(request, item: Item = Query(...))
               <<request_param,
                 Parameter("item", "Item", "singleton", FALSE, Query(Required, "", None))>>
          [] f = "ClassBodyView.post" ->
               \* def post(self, request, item: Item)
               <<self_param, request_param,
                 Parameter("item", "Item", "singleton", FALSE, NoDefault)>>
          [] f = "no_request_view" ->
               \* def no_request_view(name: str)
               <<Parameter("name", "str", "singleton", FALSE, NoDefault)>>
          [] f = "NoRequestView.get" ->
               \* def get(self, name: str)
               <<self_param, Parameter("name", "str", "singleton", FALSE, NoDefault)>>
          [] f = "self_only_view" ->
               \* def get(self)
               <<self_param>>
          [] OTHER ->
               \* def no_params_view() and def no_params()
               <<>>]

(***************************************************************************)
(* DependantUtils.get_param_field and what it calls                        *)
(***************************************************************************)
\* name.replace("_", "-") on the parameter names that occur.
replace_underscores(name) ==
    CASE name = "x_token" -> "x-token"
      [] name = "ads_id" -> "ads-id"
      [] name = "user_id" -> "user-id"
      [] OTHER -> name

\* DependantUtils.create_model_field: pydantic allows None for an Optional or
\* Any annotation and for a field that is not required and defaults to None.
create_model_field(name, type_, shape, optional, default, alias, required, gt, field_info) ==
    ModelField(name, alias, type_, shape, required, default,
               optional \/ type_ = "Any" \/ (~required /\ default = None),
               gt, field_info)

\* Whether ModelField accepts the type: with the BaseConfig of
\* create_model_field an arbitrary class such as HttpRequest has no validator,
\* ModelField raises RuntimeError and create_model_field raises in turn.
is_pydantic_type(type_) == type_ # "HttpRequest"

\* DependantUtils.is_scalar_field
is_scalar_field(field) ==
    ~ \/ field.shape # "singleton"
      \/ field.type_ = "Item"
      \/ isinstance_Body(field.field_info)

get_param_field(param) ==
    LET had_schema == param.default.kind = "FieldInfo"
        default_value ==
            IF param.default.kind = "empty" THEN Required ELSE param.default.value
        cls == IF had_schema THEN param.default.cls ELSE "Query"
        field_info ==
            FieldInfo(cls, in_of(cls), param.default.embed,
                      IF cls = "Body" THEN default_media_type(cls) ELSE "")
        required == default_value = Required
        annotation == IF param.type_ = "" THEN "Any" ELSE param.type_
        alias ==
            IF param.default.alias = "" /\ param.default.convert_underscores
            THEN replace_underscores(param.name)
            ELSE IF param.default.alias # "" THEN param.default.alias ELSE param.name
        field ==
            create_model_field(param.name, annotation, param.shape, param.optional,
                               IF required THEN None ELSE default_value,
                               alias, required, param.default.gt, field_info)
    IN  IF ~had_schema /\ ~is_scalar_field(field)
        THEN [field EXCEPT !.field_info = FieldInfo("Body", "", FALSE,
                                                    default_media_type("Body"))]
        ELSE field

(***************************************************************************)
(* Dependant.new_dependant.  A construction returns the dependant built,   *)
(* or the message of the exception raised in exc.                          *)
(***************************************************************************)
Built(dependant) == [dependant |-> dependant, exc |-> ""]

Raised(exc) == [dependant |-> FlatDependant(<<>>, <<>>, <<>>, <<>>, <<>>), exc |-> exc]

\* Dependant._add_scalar_field
add_scalar_field(self, param_field) ==
    CASE param_field.field_info.in_ = "path" ->
           Built([self EXCEPT !.path_params = Append(@, param_field)])
      [] param_field.field_info.in_ = "query" ->
           Built([self EXCEPT !.query_params = Append(@, param_field)])
      [] param_field.field_info.in_ = "header" ->
           Built([self EXCEPT !.header_params = Append(@, param_field)])
      [] param_field.field_info.in_ = "cookie" ->
           Built([self EXCEPT !.cookie_params = Append(@, param_field)])
      [] OTHER ->
           Raised("non-body parameters must be in path, query, header or cookie")

\* Dependant._add_body_field: raises when the field's marker is a Body.
add_body_field(self, param_field) ==
    IF isinstance_Body(param_field.field_info)
    THEN Raised("can only be a request body, using Body(...)")
    ELSE Built([self EXCEPT !.body_params = Append(@, param_field)])

\* Dependant.add_param_field
add_param_field(self, param, param_field) ==
    IF is_scalar_field(param_field)
    THEN add_scalar_field(self, param_field)
    ELSE IF /\ param.default.kind = "FieldInfo"
            /\ param.default.cls \in {"Query", "Header"}
            /\ is_scalar_sequence_field(param_field)
    THEN add_scalar_field(self, param_field)
    ELSE add_body_field(self, param_field)

\* Dependant.add_special_param_field: the annotation is a class, never an
\* instance of HttpRequest, so only the name decides.
add_special_param_field(param) == param.name = "request"

RECURSIVE new_dependant(_, _)
RECURSIVE new_dependant_from(_, _, _)
\* The loop of new_dependant over the parameters i.. of the signature.
new_dependant_from(dependant, typed_params, i) ==
    IF i > Len(typed_params) THEN Built(dependant)
    ELSE LET param == typed_params[i]
         IN  IF param.name = "self"
             THEN new_dependant_from(dependant, typed_params, i + 1)
             ELSE IF param.default.kind = "Depends"
             THEN LET sub_dependant == new_dependant(param.default.dependency, FALSE)
                  IN  IF sub_dependant.exc # "" THEN sub_dependant
                      ELSE new_dependant_from(
                               [dependant EXCEPT !.dependencies =
                                    Append(@, sub_dependant.dependant)],
                               typed_params, i + 1)
             ELSE IF add_special_param_field(param)
             THEN new_dependant_from([dependant EXCEPT !.request_param_name = param.name],
                                     typed_params, i + 1)
             ELSE IF ~is_pydantic_type(param.type_)
             THEN Raised("Invalid args for response field!")
             ELSE LET added == add_param_field(dependant, param, get_param_field(param))
                  IN  IF added.exc # "" THEN added
                      ELSE new_dependant_from(added.dependant, typed_params, i + 1)

\* new_dependant without the test for a method that declares only self.
new_dependant_unchecked(call_, is_view_func) ==
    LET signature_params == Signature[call_]
    IN  IF signature_params = <<>>
        THEN Raised("The django view function must have at least a request argument")
        ELSE new_dependant_from(
                 Dependant(call_, signature_params[1].name = "self", is_view_func,
                           <<>>, <<>>, <<>>, <<>>, <<>>, <<>>, ""),
                 signature_params, 1)

\* new_dependant from "if not signature_params" on, signature_params being
\* the parameters get_typed_signature returned for call_.
new_dependant_of(call_, signature_params, is_view_func) ==
    IF signature_params = <<>>
    THEN Raised("The django view function must have at least a request argument")
    ELSE LET ismethod == signature_params[1].name = "self"
         IN  IF is_view_func /\ ismethod /\ Len(signature_params) < 2
             THEN Raised("The django view function is missing a request parameter.")
             ELSE new_dependant_from(
                      Dependant(call_, ismethod, is_view_func, <<>>, <<>>, <<>>, <<>>,
                                <<>>, <<>>, ""),
                      signature_params, 1)

new_dependant(call_, is_view_func) ==
    new_dependant_of(call_, Signature[call_], is_view_func)

(***************************************************************************)
(* ViewRoute.__init__: the dependency tree of the view function, the       *)
(* dependencies of the decorator ahead of those of the signature, the body *)
(* field and the response field.                                           *)
(***************************************************************************)
RECURSIVE new_paramless_sub_dependants_reversed(_, _)
\* The sub-dependants of the decorator's Depends with the last one first.
new_paramless_sub_dependants_reversed(dependencies, i) ==
    IF i > Len(dependencies)
    THEN [dependants |-> <<>>, exc |-> ""]
    ELSE LET sub_dependant == new_dependant(dependencies[i], FALSE)
             rest == new_paramless_sub_dependants_reversed(dependencies, i + 1)
         IN  IF rest.exc # "" THEN rest
             ELSE IF sub_dependant.exc # ""
             THEN [dependants |-> <<>>, exc |-> sub_dependant.exc]
             ELSE [dependants |-> rest.dependants \o <<sub_dependant.dependant>>,
                   exc |-> ""]

RECURSIVE new_paramless_sub_dependants(_, _)
\* new_paramless_sub_dependant of every Depends i.. of the decorator, in order.
new_paramless_sub_dependants(dependencies, i) ==
    IF i > Len(dependencies)
    THEN [dependants |-> <<>>, exc |-> ""]
    ELSE LET sub_dependant == new_dependant(dependencies[i], FALSE)
             rest == new_paramless_sub_dependants(dependencies, i + 1)
         IN  IF rest.exc # "" THEN rest
             ELSE IF sub_dependant.exc # ""
             THEN [dependants |-> <<>>, exc |-> sub_dependant.exc]
             ELSE [dependants |-> <<sub_dependant.dependant>> \o rest.dependants,
                   exc |-> ""]

\* bool(body_field and isinstance(body_field.field_info, params.Form))
is_body_form(bf) == bf.field # NoField /\ isinstance_Form(bf.field.field_info)

NoRoute ==
    [dependant |-> FlatDependant(<<>>, <<>>, <<>>, <<>>, <<>>), body_field |-> NoField,
     is_body_form |-> FALSE, response_field |-> NoField, path |-> ""]

\* ViewRoute.__init__ from the dependant on: the body field, the form flag,
\* with no response_model no response field, and set_path(path="").
route_of(dependant) ==
    [dependant |-> after_get_body_field(dependant),
     body_field |-> get_body_field(dependant).field,
     is_body_form |-> is_body_form(get_body_field(dependant)),
     response_field |-> NoField, path |-> ""]

\* ViewRoute.__init__ after new_dependant(call=view_func, is_view_func=True)
\* returned or raised built: the route, or the exception raised in exc.
\* response_model is "" for None.
ViewRoute_of(built, dependencies, response_model) ==
    LET subs == new_paramless_sub_dependants(dependencies, 1)
        dependant == [built.dependant EXCEPT !.dependencies = subs.dependants \o @]
        bf == get_body_field(dependant)
    IN  IF built.exc # "" THEN [route |-> NoRoute, exc |-> built.exc]
        ELSE IF subs.exc # "" THEN [route |-> NoRoute, exc |-> subs.exc]
        ELSE IF response_model # ""
        THEN \* DependantUtils has no create_cloned_field
             [route |-> NoRoute, exc |-> "AttributeError"]
        ELSE [route |-> route_of(dependant), exc |-> ""]

\* ViewRoute(view_func, dependencies=dependencies, response_model=response_model)
ViewRoute(view_func, dependencies, response_model) ==
    ViewRoute_of(new_dependant(view_func, TRUE), dependencies, response_model)

(***************************************************************************)
(* serialize_response and the exception middleware                         *)
(***************************************************************************)
\* An exception: its class, and what the handlers of this package read of it.
Exception(cls, status_code, detail, errors) ==
    [cls |-> cls, status_code |-> status_code, detail |-> detail, errors |-> errors]

NoException == Exception("", 0, "", <<>>)

\* RequestValidationError(errors, body=body)
RequestValidationError(errors) ==
    Exception("RequestValidationError", 0, "", errors)

\* APIException(status_code, detail)
APIException(status_code, detail) == Exception("APIException", status_code, detail, <<>>)

\* pydantic.ValidationError(errors, model)
ValidationError(errors) == Exception("ValidationError", 0, "", errors)

\* isinstance(exception, APIException)
isinstance_APIException(exception) == exception.cls = "APIException"

\* isinstance(exception, ValidationError): pydantic's class and its subclass.
isinstance_ValidationError(exception) ==
    exception.cls \in {"ValidationError", "RequestValidationError"}

\* isinstance(exception, RequestValidationError): the class itself; pydantic's
\* ValidationError is its base class, not an instance of it.
isinstance_RequestValidationError(exception) == exception.cls = "RequestValidationError"

\* _prepare_response_content: a BaseModel becomes its dict, lists and dicts are
\* prepared element by element, anything else is left as it is.
RECURSIVE prepare_response_content(_)
prepare_response_content(content) ==
    CASE content.t = "Item" -> DictV(content.d)
      [] content.t = "list" ->
           ListV([k \in DOMAIN content.l |-> prepare_response_content(content.l[k])])
      [] content.t = "dict" ->
           DictV([k \in DOMAIN content.d |-> prepare_response_content(content.d[k])])
      [] OTHER -> content

\* value.dict(by_alias=by_alias, include=include, exclude=exclude): include and
\* exclude are sets of keys, None for no restriction.
model_dict(value, include, exclude) ==
    DictV([k \in {x \in DOMAIN value.d :
                     /\ (include # None => x \in DOMAIN include.d)
                     /\ (exclude # None => x \notin DOMAIN exclude.d)}
           |-> value.d[k]])

\* serialize_response: result is the returned content, exc the exception raised.
serialize_response(response_content, field, include, exclude) ==
    IF field = NoField THEN [result |-> response_content, exc |-> NoException]
    ELSE LET prepared == prepare_response_content(response_content)
             validated == validate(field, prepared, <<StrV("response")>>)
         IN  IF validated.errors # <<>>
             THEN [result |-> None, exc |-> ValidationError(validated.errors)]
             ELSE IF validated.value.t # "Item"
             THEN \* value.dict: the value is no BaseModel
                  [result |-> None, exc |-> Exception("AttributeError", 0, "", <<>>)]
             ELSE [result |-> model_dict(validated.value, include, exclude),
                   exc |-> NoException]

\* AutoWiredExceptionMiddleware.process_exception: the JsonResponse it returns
\* (handled, with its status and detail), or the exception raised again.
process_exception(exception) ==
    IF isinstance_APIException(exception)
    THEN [handled |-> TRUE, status |-> exception.status_code,
          detail |-> exception.detail, raised |-> NoException]
    ELSE IF isinstance_RequestValidationError(exception)
    THEN [handled |-> TRUE, status |-> 400,
          detail |-> "validate params error", raised |-> NoException]
    ELSE [handled |-> FALSE, status |-> 0, detail |-> "", raised |-> exception]

NoResponse == [handled |-> FALSE, status |-> 0, detail |-> "", raised |-> NoException]

(***************************************************************************)
(* The wrapper of a decorated view function.  A request is its path        *)
(* keyword arguments, its query string and its body, a sequence of bytes   *)
(* written as one-character texts, "\\xff" for a byte that is no UTF-8.    *)
(***************************************************************************)
RECURSIVE scan_digits(_, _)
\* The end of the run of digits of s that starts at index i (1-based).
scan_digits(s, i) == IF i <= Len(s) /\ s[i] = "1" THEN scan_digits(s, i + 1) ELSE i

RECURSIVE number_of(_, _)
\* int() of the first n characters of a run of digits "1".
number_of(s, n) == IF n = 0 THEN 0 ELSE 10 * number_of(s, n - 1) + 1

\* json.loads(body_bytes) on this alphabet: the value, or the exception with
\* the offset pos of a JSONDecodeError.
json_loads(s) ==
    LET ok(v) == [value |-> v, exc |-> "", pos |-> 0]
        fail(pos) == [value |-> None, exc |-> "JSONDecodeError", pos |-> pos]
        ended(v, end) == IF end < Len(s) THEN fail(end) ELSE ok(v)
    IN  IF \E k \in DOMAIN s : s[k] = "\\xff"
        THEN [value |-> None, exc |-> "UnicodeDecodeError", pos |-> 0]
        ELSE IF s[1] = "1"
        THEN LET end == scan_digits(s, 1) - 1 IN ended(IntV(number_of(s, end)), end)
        ELSE IF s[1] = "{"
        THEN IF Len(s) >= 2 /\ s[2] = "}" THEN ended(DictV(<<>>), 2) ELSE fail(1)
        ELSE fail(0)

\* A json.loads that reports a syntax error as a plain ValueError.
to_json_value_error(request) ==
    IF request.body = <<>> THEN [value |-> None, exc |-> "", pos |-> 0]
    ELSE LET loaded == json_loads(request.body)
         IN  IF loaded.exc = "JSONDecodeError" THEN [loaded EXCEPT !.exc = "ValueError"]
             ELSE loaded

\* BodyConverter.to_json
to_json(request) ==
    IF request.body = <<>> THEN [value |-> None, exc |-> "", pos |-> 0]
    ELSE json_loads(request.body)

\* BodyConverter.to_form: request.POST and request.FILES in one MultiValueDict.
to_form(request) == [value |-> MultiValueDictV(request.POST), exc |-> "", pos |-> 0]

\* The keyword parameters of Dependant.solve_dependencies, whose body is pass.
solve_dependencies_parameters == {"request", "path_kwargs"}

\* A resolver that takes any keyword and forgets the request parameter of the
\* node it resolves.
solve_dependencies_forgetting(self, keywords) ==
    [result |-> None, exc |-> NoException,
     self |-> [self EXCEPT !.request_param_name = ""]]

\* dependant.solve_dependencies(**keywords): None, or the TypeError of a
\* keyword the method does not take; self is the node as the call leaves it.
solve_dependencies(self, keywords) ==
    IF keywords \subseteq solve_dependencies_parameters
    THEN [result |-> None, exc |-> NoException, self |-> self]
    ELSE [result |-> None, exc |-> Exception("TypeError", 0, "", <<>>), self |-> self]

\* inner(request, **path_kwargs) of the wrapper made for route: the exception
\* it raises, the callables it invoked and the dependant of the route as the
\* call leaves it.
inner(route, request) ==
    LET parsed ==
            IF route.body_field # NoField
            THEN IF route.is_body_form THEN to_form(request) ELSE to_json(request)
            ELSE [value |-> None, exc |-> "", pos |-> 0]
        solved_result ==
            solve_dependencies(route.dependant,
                               {"request", "body", "path_kwargs", "is_body_form"})
    IN  IF parsed.exc = "JSONDecodeError"
        THEN [raised |-> RequestValidationError(
                             <<ErrorWrapper("value_error.jsondecode",
                                            <<StrV("body"), IntV(parsed.pos)>>)>>),
              invoked |-> <<>>, dependant |-> route.dependant]
        ELSE IF parsed.exc # ""
        THEN [raised |-> APIException(422, "parse body error"), invoked |-> <<>>,
              dependant |-> route.dependant]
        ELSE IF solved_result.exc # NoException
        THEN [raised |-> solved_result.exc, invoked |-> <<>>,
              dependant |-> solved_result.self]
        ELSE \* values, errors = None
             [raised |-> Exception("TypeError", 0, "", <<>>), invoked |-> <<>>,
              dependant |-> solved_result.self]

(***************************************************************************)
(* The fields and raw values the converters are applied to.  Numbers are   *)
(* scaled down: the tests' gt=20 is gt=1 here, their default 100 is 3.     *)
(***************************************************************************)
MaxFields == 2

PathInfo == FieldInfo("Path", "path", FALSE, "")

QueryInfo == FieldInfo("Query", "query", FALSE, "")

HeaderInfo == FieldInfo("Header", "header", FALSE, "")

CookieInfo == FieldInfo("Cookie", "cookie", FALSE, "")

ParamFields ==
    { \* id: int = Path(gt=1)
      ModelField("id", "id", "int", "singleton", TRUE, None, FALSE, IntV(1), PathInfo),
      \* name: str
      ModelField("name", "name", "str", "singleton", TRUE, None, FALSE, None, QueryInfo),
      \* q: int = Query(..., alias="item-query")
      ModelField("q", "item-query", "int", "singleton", TRUE, None, FALSE, None, QueryInfo),
      \* limit: Optional[int] = 3
      ModelField("limit", "limit", "int", "singleton", FALSE, IntV(3), TRUE, None, QueryInfo),
      \* page: Optional[int] = Query(default=2, gt=1)
      ModelField("page", "page", "int", "singleton", FALSE, IntV(2), TRUE, IntV(1), QueryInfo),
      \* size: int = Query(default=1, gt=1), a default its own constraint rejects
      ModelField("size", "size", "int", "singleton", FALSE, IntV(1), FALSE, IntV(1), QueryInfo),
      \* tags: List[int] = Query(...)
      ModelField("tags", "tags", "int", "list", TRUE, None, FALSE, None, QueryInfo),
      \* x_token: str = Header(...), underscores converted
      ModelField("x_token", "x-token", "str", "singleton", TRUE, None, FALSE, None, HeaderInfo),
      \* ads_id: Optional[str] = Cookie(None)
      ModelField("ads_id", "ads_id", "str", "singleton", FALSE, None, TRUE, None, CookieInfo),
      \* opts=[1], no annotation
      ModelField("opts", "opts", "Any", "singleton", FALSE, Stored(ListV(<<IntV(1)>>)), TRUE,
                 None, QueryInfo),
      \* ids: List[int] = Query([2])
      ModelField("ids", "ids", "int", "list", FALSE, Stored(ListV(<<IntV(2)>>)), FALSE,
                 None, QueryInfo) }

BodyInfo(embed) == FieldInfo("Body", "", embed, "application/json")

BodyFields ==
    { \* item: Item
      ModelField("item", "item", "Item", "singleton", TRUE, None, FALSE, None, BodyInfo(FALSE)),
      \* item1: Item
      ModelField("item1", "item1", "Item", "singleton", TRUE, None, FALSE, None, BodyInfo(FALSE)),
      \* item: Item = Body(..., embed=True)
      ModelField("item", "item", "Item", "singleton", TRUE, None, FALSE, None, BodyInfo(TRUE)),
      \* user_id: int = Body(...)
      ModelField("user_id", "user_id", "int", "singleton", TRUE, None, FALSE, None, BodyInfo(FALSE)),
      \* note: Optional[int] = Body(None)
      ModelField("note", "note", "int", "singleton", FALSE, None, TRUE, None, BodyInfo(FALSE)) }

\* Lists of at most MaxFields fields of U with different names, in any order.
FieldLists(U) ==
    {q \in UNION {[1..n -> U] : n \in 0..MaxFields} :
        \A i, j \in DOMAIN q : i # j => q[i].name # q[j].name}

AliasesOf(fields) == {fields[i].alias : i \in DOMAIN fields}

NamesOf(fields) == {fields[i].name : i \in DOMAIN fields}

\* The raw texts of a path, header or cookie mapping and the value lists of a
\* query string.
RawTexts == {StrV("1"), StrV("2"), StrV("x")}

RawLists == {ListV(<<v>>) : v \in RawTexts} \cup {ListV(<<StrV("2"), StrV("1")>>)}

\* Every mapping of some of the keys to one of the options.
Mappings(keys, options) == UNION {[S -> options] : S \in SUBSET keys}

\* The mappings to_args may be given for the fields fs: a dict of raw texts
\* (path keyword arguments, headers, cookies) or a QueryDict of value lists.
ParamValues(fs) ==
    {DictV(d) : d \in Mappings(AliasesOf(fs), RawTexts)}
    \cup {QueryDictV(d) : d \in Mappings(AliasesOf(fs), RawLists)}

\* Decoded JSON: the values a key of the body may hold, and the bodies.
JsonLeaves ==
    {IntV(0), IntV(2), StrV("x"),
     DictV([k \in {"id"} |-> IntV(2)]), DictV([k \in {"id"} |-> StrV("x")])}

JsonBodies(fields) ==
    {None} \cup JsonLeaves \cup {DictV(d) : d \in Mappings(AliasesOf(fields), JsonLeaves)}

\* A handler node that declares body_params and the sub-dependencies given.
BodyNode(body_params, dependencies) ==
    Dependant("view", FALSE, TRUE, <<>>, <<>>, <<>>, <<>>, body_params, dependencies, "request")

\* The trees that declare the body fields fs in this order: the handler
\* declares the first k of them and one sub-dependency the others, or the
\* handler declares them all and a sub-dependency declares the first again.
BodyTrees(fs) ==
    {BodyNode(fs, <<>>)}
    \cup {BodyNode(SubSeq(fs, 1, k), <<BodyNode(SubSeq(fs, k + 1, Len(fs)), <<>>)>>) :
            k \in 0..(Len(fs) - 1)}
    \cup (IF fs = <<>> THEN {} ELSE {BodyNode(fs, <<BodyNode(<<fs[1]>>, <<>>)>>)})

NoTree == FlatDependant(<<>>, <<>>, <<>>, <<>>, <<>>)

NotBuilt == [built |-> FALSE, field |-> NoField, composite |-> FALSE, fields |-> <<>>]

(***************************************************************************)
(* State.  call is the call being made and ret what it returned or raised; *)
(* tree is the dependency tree whose body is resolved and body_field what  *)
(* get_body_field made of it; view_route is the registry of the Autowired  *)
(* object, from view function to route; wrappers are the inner functions   *)
(* the decorator has returned, each with what its closure holds;           *)
(* openapi_schema is the attribute of that name of the Autowired object    *)
(* and threads the threads that are inside Autowired.openapi, each with    *)
(* its position and its local variables.                                   *)
(***************************************************************************)
VARIABLES call, ret, tree, body_field, view_route, wrappers, openapi_schema, threads

vars == <<call, ret, tree, body_field, view_route, wrappers, openapi_schema, threads>>

\* A schema get_schema returned: the thread that generated it, telling the
\* dict objects apart, and the keys of its "paths".  NoSchema is None.
Schema(generated_by, paths) == [generated_by |-> generated_by, paths |-> paths]

NoSchema == Schema(0, {})

NoRet ==
    [done |-> FALSE, values |-> <<>>, errors |-> <<>>, exc |-> "",
     result |-> None, raised |-> NoException, response |-> NoResponse,
     invoked |-> <<>>, flat |-> NoTree]

\* What a converter returned: its values and errors, or the exception raised.
Returned(values, errors, exc) ==
    [NoRet EXCEPT !.done = TRUE, !.values = values, !.errors = errors, !.exc = exc]

InitToArgs ==
    /\ \E fs \in FieldLists(ParamFields) :
          \E param_values \in ParamValues(fs) :
              call = [op |-> "to_args", param_fields |-> fs, param_values |-> param_values]
    /\ ret = NoRet
    /\ tree = NoTree
    /\ body_field = NotBuilt
    /\ view_route = <<>>
    /\ wrappers = {}
    /\ openapi_schema = NoSchema
    /\ threads = <<>>

ToArgs ==
    /\ call.op = "to_args"
    /\ ~ret.done
    /\ LET r == to_args(call.param_fields, call.param_values)
       IN ret' = Returned(r.values, r.errors, "")
    /\ UNCHANGED <<call, tree, body_field, view_route, wrappers, openapi_schema, threads>>

NextToArgs == ToArgs

SpecToArgs == InitToArgs /\ [][NextToArgs]_vars

(***************************************************************************)
(* The body of a request: ViewRoute.__init__ asks the tree for its body    *)
(* field once, then to_body resolves a decoded body against the flattened  *)
(* body fields of the tree.                                                *)
(***************************************************************************)
InitToBody ==
    /\ \E fs \in FieldLists(BodyFields) :
          /\ tree \in BodyTrees(fs)
          /\ \E b \in JsonBodies(fs) : call = [op |-> "to_body", body |-> b]
    /\ ret = NoRet
    /\ body_field = NotBuilt
    /\ view_route = <<>>
    /\ wrappers = {}
    /\ openapi_schema = NoSchema
    /\ threads = <<>>

GetBodyField ==
    /\ call.op = "to_body"
    /\ ~body_field.built
    /\ LET bf == get_body_field(tree)
       IN body_field' = [built |-> TRUE, field |-> bf.field,
                         composite |-> bf.composite, fields |-> bf.fields]
    /\ tree' = after_get_body_field(tree)
    /\ UNCHANGED <<call, ret, view_route, wrappers, openapi_schema, threads>>

ToBody ==
    /\ call.op = "to_body"
    /\ body_field.built
    /\ ~ret.done
    /\ LET r == to_body(flat(tree).body_params, call.body, is_body_form(body_field))
       IN ret' = Returned(r.values, r.errors, r.exc)
    /\ UNCHANGED <<call, tree, body_field, view_route, wrappers, openapi_schema, threads>>

NextToBody == GetBodyField \/ ToBody

SpecToBody == InitToBody /\ [][NextToBody]_vars

(***************************************************************************)
(* Dependant.flat on dependency trees: the handler node and at most        *)
(* MaxSubs sub-dependency nodes, each below an earlier node, each          *)
(* declaring one of the parameter lists of OwnParams.                      *)
(***************************************************************************)
MaxSubs == 3

\* The names of the first and of the second parameter of node i (0 is the
\* handler).
FirstNames == <<"a", "b", "c", "d", "e", "f">>

SecondNames == <<"u", "v", "w", "x", "y", "z">>

FlatField(name, field_info) ==
    ModelField(name, name, "int", "singleton", TRUE, None, FALSE, None, field_info)

\* The parameter lists node i may declare.
OwnParams(i) ==
    << <<>>,
       <<FlatField(FirstNames[i + 1], PathInfo)>>,
       <<FlatField(FirstNames[i + 1], QueryInfo)>>,
       <<FlatField(FirstNames[i + 1], QueryInfo), FlatField(SecondNames[i + 1], HeaderInfo)>>,
       <<FlatField(FirstNames[i + 1], CookieInfo), FlatField(SecondNames[i + 1], BodyInfo(FALSE))>> >>

\* The fields of a parameter list that belong to the class cls, in order.
OfClass(own, cls) == SelectSeq(own, LAMBDA f : f.field_info.cls = cls)

RECURSIVE Ascending(_)
\* The numbers of S in ascending order.
Ascending(S) ==
    IF S = {} THEN <<>>
    ELSE LET least == CHOOSE n \in S : \A m \in S : n <= m
         IN  <<least>> \o Ascending(S \ {least})

RECURSIVE FlatTree(_, _, _)
\* The tree below node i: parent maps each sub-dependency node to the node
\* that declares it, own maps each node to its parameter list.
FlatTree(i, parent, own) ==
    LET subs == Ascending({j \in DOMAIN parent : parent[j] = i})
    IN  Dependant(FirstNames[i + 1], FALSE, i = 0,
                  OfClass(own[i], "Path"), OfClass(own[i], "Query"),
                  OfClass(own[i], "Header"), OfClass(own[i], "Cookie"),
                  OfClass(own[i], "Body"),
                  [k \in DOMAIN subs |-> FlatTree(subs[k], parent, own)],
                  IF i = 0 THEN "request" ELSE "")

InitFlat ==
    /\ \E parent \in [1..MaxSubs -> 0..(MaxSubs - 1)] :
          /\ \A j \in 1..MaxSubs : parent[j] < j
          /\ \E pick \in [0..MaxSubs -> DOMAIN OwnParams(0)] :
                tree = FlatTree(0, parent, [i \in 0..MaxSubs |-> OwnParams(i)[pick[i]]])
    /\ call = [op |-> "flat", self |-> tree, times |-> 0]
    /\ ret = NoRet
    /\ body_field = NotBuilt
    /\ view_route = <<>>
    /\ wrappers = {}
    /\ openapi_schema = NoSchema
    /\ threads = <<>>

\* node.flat()
Flat ==
    /\ call.op = "flat"
    /\ call.times = 0
    /\ call' = [call EXCEPT !.times = 1]
    /\ ret' = [NoRet EXCEPT !.done = TRUE, !.flat = flat(tree)]
    /\ tree' = self_after_flat(tree)
    /\ UNCHANGED <<body_field, view_route, wrappers, openapi_schema, threads>>

\* node.flat().flat(): flat() on what the first call returned.
FlatAgain ==
    /\ call.op = "flat"
    /\ call.times = 1
    /\ call' = [call EXCEPT !.times = 2]
    /\ ret' = [ret EXCEPT !.flat = flat(ret.flat)]
    /\ UNCHANGED <<tree, body_field, view_route, wrappers, openapi_schema, threads>>

NextFlat == Flat \/ FlatAgain

SpecFlat == InitFlat /\ [][NextFlat]_vars

(***************************************************************************)
(* The response of a handler: serialize_response projects the returned     *)
(* content through the response field; an exception it raises reaches the  *)
(* middleware's process_exception.                                         *)
(***************************************************************************)
\* The field of response_model=Item: create_model_field(name, type_) leaves it
\* not required, with default None.
ResponseField ==
    ModelField("Response_view", "Response_view", "Item", "singleton", FALSE, None, TRUE,
               None, FieldInfo("FieldInfo", "", FALSE, ""))

\* What a handler may return.
ResponseContents ==
    {None, IntV(2), StrV("x"),
     DictV(<<>>), DictV([k \in {"id"} |-> IntV(2)]), DictV([k \in {"id"} |-> StrV("2")]),
     DictV([k \in {"id"} |-> StrV("x")]),
     DictV([k \in {"id", "name"} |-> IF k = "id" THEN IntV(2) ELSE StrV("x")]),
     ItemV([k \in {"id"} |-> IntV(2)]), ItemV([k \in {"id"} |-> IntV(0)])}

\* response_model_include / response_model_exclude: None or a set of keys.
KeySets == {None, DictV(<<>>), DictV([k \in {"id"} |-> None])}

InitResponse ==
    /\ call \in [op : {"serialize_response"}, response_content : ResponseContents,
                 field : {NoField, ResponseField}, include : KeySets, exclude : KeySets]
    /\ ret = NoRet
    /\ tree = NoTree
    /\ body_field = NotBuilt
    /\ view_route = <<>>
    /\ wrappers = {}
    /\ openapi_schema = NoSchema
    /\ threads = <<>>

SerializeResponse ==
    /\ call.op = "serialize_response"
    /\ ~ret.done
    /\ LET r == serialize_response(call.response_content, call.field,
                                   call.include, call.exclude)
       IN ret' = [NoRet EXCEPT !.done = TRUE, !.result = r.result, !.raised = r.exc]
    /\ UNCHANGED <<call, tree, body_field, view_route, wrappers, openapi_schema, threads>>

ProcessException ==
    /\ call.op = "serialize_response"
    /\ ret.done
    /\ ret.raised # NoException
    /\ ret.response = NoResponse
    /\ ret' = [ret EXCEPT !.response = process_exception(ret.raised)]
    /\ UNCHANGED <<call, tree, body_field, view_route, wrappers, openapi_schema, threads>>

NextResponse == SerializeResponse \/ ProcessException

SpecResponse == InitResponse /\ [][NextResponse]_vars

(***************************************************************************)
(* The application: view functions are decorated, each once, and requests  *)
(* reach the wrappers of the registered ones.  An exception a wrapper      *)
(* raises is given to the middleware's process_exception.                  *)
(***************************************************************************)
MaxBodyLen == 2

BodyBytes == {"{", "}", "1", "\\xff"}

Bodies == UNION {[1..n -> BodyBytes] : n \in 0..MaxBodyLen}

\* The decorations: autowired(dependencies=..., response_model=...)(func)
Decorations ==
    {[func |-> f, dependencies |-> <<>>, response_model |-> ""] : f \in ViewFuncs}
    \cup {[func |-> "func_view", dependencies |-> <<"common">>, response_model |-> ""],
          [func |-> "func_view", dependencies |-> <<"no_params">>, response_model |-> ""],
          [func |-> "func_view", dependencies |-> <<>>, response_model |-> "Item"]}

\* The requests that reach a route: values under the aliases its fields read
\* and, for a route with a body field, a body.
Requests(route) ==
    LET flat_dependant == flat(route.dependant)
    IN  [path_kwargs : {DictV(d) : d \in Mappings(AliasesOf(flat_dependant.path_params),
                                                  RawTexts)},
         GET : {QueryDictV(d) : d \in Mappings(AliasesOf(flat_dependant.query_params),
                                               RawLists)},
         POST : {<<>>},
         body : IF route.body_field # NoField THEN Bodies ELSE {<<>>}]

Init ==
    /\ view_route = <<>>
    /\ wrappers = {}
    /\ openapi_schema = NoSchema
    /\ threads = <<>>
    /\ call = [op |-> "none"]
    /\ ret = NoRet
    /\ tree = NoTree
    /\ body_field = NotBuilt

\* What the closure of inner holds of the route the decorator built: the
\* body field and the form flag it copied, and the route's response field.
closure(func, route) ==
    [func |-> func, body_field |-> route.body_field,
     is_body_form |-> route.is_body_form, response_field |-> route.response_field]

\* decorator(func) of the decoration d: the route is built and, unless that
\* raised, stored under func in place of what was stored, and inner returned.
Decorate(d) ==
    LET r == ViewRoute(d.func, d.dependencies, d.response_model)
    IN  /\ call' = [op |-> "decorator", func |-> d.func,
                    dependencies |-> d.dependencies,
                    response_model |-> d.response_model]
        /\ ret' = [NoRet EXCEPT !.done = TRUE, !.exc = r.exc]
        /\ view_route' = IF r.exc = "" THEN (d.func :> r.route) @@ view_route
                         ELSE view_route
        /\ wrappers' = IF r.exc = "" THEN wrappers \cup {closure(d.func, r.route)}
                       ELSE wrappers
        /\ UNCHANGED <<tree, body_field, openapi_schema, threads>>

\* A view function is decorated once.
Register ==
    \E d \in Decorations : d.func \notin DOMAIN view_route /\ Decorate(d)

\* What the wrapper w reads when it is called: the dependant of the route
\* stored under its function now, the rest from its closure.
wrapper_route(w) ==
    [dependant |-> view_route[w.func].dependant, body_field |-> w.body_field,
     is_body_form |-> w.is_body_form, response_field |-> w.response_field]

\* The wrapper w called with request, through the middleware.
Handle(w, request) ==
    LET r == inner(wrapper_route(w), request)
    IN  /\ call' = [op |-> "inner", func |-> w.func, request |-> request, wrapper |-> w]
        /\ ret' = [NoRet EXCEPT !.done = TRUE, !.raised = r.raised,
                                !.invoked = r.invoked,
                                !.response = IF r.raised = NoException
                                             THEN NoResponse
                                             ELSE process_exception(r.raised)]
        /\ view_route' = [view_route EXCEPT ![w.func].dependant = r.dependant]
        /\ UNCHANGED <<tree, body_field, wrappers, openapi_schema, threads>>

\* A request to a wrapper of a registered view function.
Request ==
    \E w \in wrappers :
        \E request \in Requests(view_route[w.func]) : Handle(w, request)

Next == Register \/ Request

Spec == Init /\ [][Next]_vars

(***************************************************************************)
(* The same view function decorated again and again, with different        *)
(* dependencies, and requests to every wrapper that was returned.          *)
(***************************************************************************)
Redecorations ==
    {[func |-> f, dependencies |-> ds, response_model |-> ""] :
        f \in {"func_view", "query_item_view"},
        ds \in {<<>>, <<"common">>, <<"item_query">>}}

\* decorator(func), whether or not func has a route already.
Redecorate == \E d \in Redecorations : Decorate(d)

NextRegistry == Redecorate \/ Request

SpecRegistry == Init /\ [][NextRegistry]_vars

(***************************************************************************)
(* Autowired.openapi called by MaxThreads threads at once, after two       *)
(* class-based views were decorated and setup_schema was called.  The URL  *)
(* configuration has at most MaxEndpoints endpoints.  A step of a thread   *)
(* is one read or write of an attribute the threads share.                 *)
(***************************************************************************)
MaxThreads == 2

MaxEndpoints == 2

Threads == 1..MaxThreads

\* The view functions decorated, in the order of the keys of _view_route.
Decorated == <<"ClassQueryView.get", "ClassBodyView.post">>

\* ".".join(r.__qualname__.split(".")[:-1]): the qualified name of the class
\* of a method, "" for a function.
fun_name(r) ==
    CASE r = "ClassQueryView.get" -> "ClassQueryView"
      [] r = "ClassBodyView.post" -> "ClassBodyView"
      [] r = "NoRequestView.get" -> "NoRequestView"
      [] OTHER -> ""

\* What get_api_endpoints may return: (path, callback) pairs with different
\* paths, callback being the __qualname__ of the callback.
Endpoint(path, callback) == [path |-> path, callback |-> callback]

Endpoints ==
    {Endpoint("/query/", "ClassQueryView"), Endpoint("/query/{id}/", "ClassQueryView"),
     Endpoint("/body/", "ClassBodyView"), Endpoint("/docs/", "swaggerView")}

RECURSIVE set_path_calls(_, _, _, _)
\* The calls routes[r].set_path(path) set_route_path makes, in order, from the
\* i-th route and the j-th endpoint on.
set_path_calls(routes, endpoints, i, j) ==
    IF i > Len(routes) THEN <<>>
    ELSE IF j > Len(endpoints) THEN set_path_calls(routes, endpoints, i + 1, 1)
    ELSE IF endpoints[j].callback = fun_name(routes[i])
    THEN <<[r |-> routes[i], path |-> endpoints[j].path]>>
         \o set_path_calls(routes, endpoints, i, j + 1)
    ELSE set_path_calls(routes, endpoints, i, j + 1)

\* A thread before it calls openapi().
Idle == [pc |-> "call", todo |-> <<>>, routes |-> <<>>, schema |-> NoSchema,
         returned |-> NoSchema]

InitOpenapi ==
    /\ \E n \in 1..MaxEndpoints :
          \E endpoints \in [1..n -> Endpoints] :
              /\ \A i, j \in 1..n : i # j => endpoints[i].path # endpoints[j].path
              /\ call = [op |-> "openapi", endpoints |-> endpoints]
    /\ ret = NoRet
    /\ tree = NoTree
    /\ body_field = NotBuilt
    /\ view_route = [r \in {Decorated[i] : i \in DOMAIN Decorated} |->
                        ViewRoute(r, <<>>, "").route]
    /\ wrappers = {closure(r, view_route[r]) : r \in DOMAIN view_route}
    /\ openapi_schema = NoSchema
    /\ threads = [t \in Threads |-> Idle]

\* "if not self.openapi_schema": with a schema stored the thread goes on to
\* return it, else it makes a generator, whose __init__ lists the endpoints
\* and starts set_route_path.
Check(t) ==
    /\ call.op = "openapi"
    /\ threads[t].pc = "call"
    /\ threads' = [threads EXCEPT ![t] =
           IF openapi_schema # NoSchema THEN [@ EXCEPT !.pc = "return"]
           ELSE [@ EXCEPT !.pc = "set_route_path",
                          !.todo = set_path_calls(Decorated, call.endpoints, 1, 1)]]
    /\ UNCHANGED <<call, ret, tree, body_field, view_route, wrappers, openapi_schema>>

\* set_route_path: routes[r].set_path(path); self.routes.append(routes[r])
SetPath(t) ==
    /\ threads[t].pc = "set_route_path"
    /\ threads[t].todo # <<>>
    /\ LET next == Head(threads[t].todo)
       IN  /\ view_route' = [view_route EXCEPT ![next.r].path = next.path]
           /\ threads' = [threads EXCEPT ![t].todo = Tail(@),
                                         ![t].routes = Append(@, next.r)]
    /\ UNCHANGED <<call, ret, tree, body_field, wrappers, openapi_schema>>

\* generator.get_schema(): get_openapi puts the path of every route of
\* self.routes among the keys of "paths".
GetSchema(t) ==
    /\ threads[t].pc = "set_route_path"
    /\ threads[t].todo = <<>>
    /\ threads' = [threads EXCEPT
           ![t].pc = "store",
           ![t].schema = Schema(t, {view_route[threads[t].routes[i]].path :
                                       i \in DOMAIN threads[t].routes})]
    /\ UNCHANGED <<call, ret, tree, body_field, view_route, wrappers, openapi_schema>>

\* self.openapi_schema = <the schema get_schema returned>
Store(t) ==
    /\ threads[t].pc = "store"
    /\ openapi_schema' = threads[t].schema
    /\ threads' = [threads EXCEPT ![t].pc = "return"]
    /\ UNCHANGED <<call, ret, tree, body_field, view_route, wrappers>>

\* return self.openapi_schema
Return(t) ==
    /\ threads[t].pc = "return"
    /\ threads' = [threads EXCEPT ![t].pc = "done", ![t].returned = openapi_schema]
    /\ UNCHANGED <<call, ret, tree, body_field, view_route, wrappers, openapi_schema>>

NextOpenapi ==
    \E t \in Threads : Check(t) \/ SetPath(t) \/ GetSchema(t) \/ Store(t) \/ Return(t)

SpecOpenapi == InitOpenapi /\ [][NextOpenapi]_vars

(***************************************************************************)
(* Dependant.new_dependant on signatures: an optional self, an optional    *)
(* request parameter and at most MaxParams further parameters with         *)
(* different names.                                                        *)
(***************************************************************************)
MaxParams == 2

\* What a signature may start with: nothing, self, a request parameter by
\* name (annotated or not) or by type only.
Receivers ==
    { <<>>, <<self_param>>, <<request_param>>, <<self_param, request_param>>,
      <<Parameter("request", "", "singleton", FALSE, NoDefault)>>,
      <<Parameter("req", "HttpRequest", "singleton", FALSE, NoDefault)>> }

DeclaredParams ==
    { \* name: str
      Parameter("name", "str", "singleton", FALSE, NoDefault),
      \* limit: Optional[int] = 3
      Parameter("limit", "int", "singleton", TRUE, Default(IntV(3))),
      \* item: Item
      Parameter("item", "Item", "singleton", FALSE, NoDefault),
      \* images: List[Image]
      Parameter("images", "Item", "list", FALSE, NoDefault),
      \* data: Dict[str, float]
      Parameter("data", "int", "dict", FALSE, NoDefault),
      \* tags: List[int]
      Parameter("tags", "int", "list", FALSE, NoDefault),
      \* tags: List[int] = Query(...)
      Parameter("tags", "int", "list", FALSE, Query(Required, "", None)),
      \* x_tags: List[str] = Header(...)
      Parameter("x_tags", "str", "list", FALSE, Header(Required)),
      \* item: Item = Query(...)
      Parameter("item", "Item", "singleton", FALSE, Query(Required, "", None)),
      \* item: Item = Body(..., embed=True)
      Parameter("item", "Item", "singleton", FALSE, Body(Required, TRUE)),
      \* id: int = Path(gt=1)
      Parameter("id", "int", "singleton", FALSE, Path(Required, IntV(1))),
      \* x_token: str = Header(...)
      Parameter("x_token", "str", "singleton", FALSE, Header(Required)),
      \* ads_id: Optional[str] = Cookie(None)
      Parameter("ads_id", "str", "singleton", TRUE, Cookie(None)),
      \* a=Depends(common)
      Parameter("a", "", "singleton", FALSE, Depends("common")),
      \* b=Depends(no_params)
      Parameter("b", "", "singleton", FALSE, Depends("no_params")) }

\* Lists of at most MaxParams parameters of DeclaredParams with different
\* names, in any order.
ParameterLists ==
    {q \in UNION {[1..n -> DeclaredParams] : n \in 0..MaxParams} :
        \A i, j \in DOMAIN q : i # j => q[i].name # q[j].name}

InitDependant ==
    /\ \E receiver \in Receivers, declared \in ParameterLists, is_view_func \in BOOLEAN :
          call = [op |-> "new_dependant", signature |-> receiver \o declared,
                  is_view_func |-> is_view_func]
    /\ ret = NoRet
    /\ tree = NoTree
    /\ body_field = NotBuilt
    /\ view_route = <<>>
    /\ wrappers = {}
    /\ openapi_schema = NoSchema
    /\ threads = <<>>

\* Dependant.new_dependant(call, is_view_func=...)
NewDependant ==
    /\ call.op = "new_dependant"
    /\ ~ret.done
    /\ LET r == new_dependant_of("view", call.signature, call.is_view_func)
       IN  /\ ret' = [NoRet EXCEPT !.done = TRUE, !.exc = r.exc]
           /\ tree' = r.dependant
    /\ UNCHANGED <<call, body_field, view_route, wrappers, openapi_schema, threads>>

NextDependant == NewDependant

SpecDependant == InitDependant /\ [][NextDependant]_vars

(***************************************************************************)
(* ViewRoute.__init__ on a view function def view(request, ...) with at    *)
(* most MaxParams further parameters, decorated with at most MaxDepends    *)
(* dependencies.                                                           *)
(***************************************************************************)
MaxDepends == 2

RouteParams ==
    { \* name: str
      Parameter("name", "str", "singleton", FALSE, NoDefault),
      \* a=Depends(common)
      Parameter("a", "", "singleton", FALSE, Depends("common")),
      \* b=Depends(no_params)
      Parameter("b", "", "singleton", FALSE, Depends("no_params")),
      \* c=Depends(pagination)
      Parameter("c", "", "singleton", FALSE, Depends("pagination")) }

InitRoute ==
    /\ \E n \in 0..MaxParams, k \in 0..MaxDepends :
          \E declared \in [1..n -> RouteParams], dependencies \in [1..k -> Dependencies] :
              /\ \A i, j \in 1..n : i # j => declared[i].name # declared[j].name
              /\ call = [op |-> "ViewRoute", signature |-> <<request_param>> \o declared,
                         dependencies |-> dependencies]
    /\ ret = NoRet
    /\ tree = NoTree
    /\ body_field = NotBuilt
    /\ view_route = <<>>
    /\ wrappers = {}
    /\ openapi_schema = NoSchema
    /\ threads = <<>>

\* ViewRoute(view_func=view, dependencies=[Depends(d) for d in dependencies])
BuildRoute ==
    /\ call.op = "ViewRoute"
    /\ ~ret.done
    /\ LET r == ViewRoute_of(new_dependant_of("view", call.signature, TRUE),
                             call.dependencies, "")
       IN  /\ ret' = [NoRet EXCEPT !.done = TRUE, !.exc = r.exc]
           /\ tree' = r.route.dependant
    /\ UNCHANGED <<call, body_field, view_route, wrappers, openapi_schema, threads>>

NextRoute == BuildRoute

SpecRoute == InitRoute /\ [][NextRoute]_vars

(***************************************************************************)
(* The body field of a route: ViewRoute.__init__ asks a dependency tree     *)
(* that declares JSON, form and file fields for its body field and sets    *)
(* the form flag; requests then reach the wrapper of the route.            *)
(***************************************************************************)
FormInfo == FieldInfo("Form", "", FALSE, default_media_type("Form"))

FileInfo == FieldInfo("File", "", FALSE, default_media_type("File"))

MediaBodyInfo(media_type) == FieldInfo("Body", "", FALSE, media_type)

KindFields ==
    { \* item: Item
      ModelField("item", "item", "Item", "singleton", TRUE, None, FALSE, None, BodyInfo(FALSE)),
      \* note: Optional[int] = Body(None)
      ModelField("note", "note", "int", "singleton", FALSE, None, TRUE, None, BodyInfo(FALSE)),
      \* memo: Optional[str] = Body(None)
      ModelField("memo", "memo", "str", "singleton", FALSE, None, TRUE, None, BodyInfo(FALSE)),
      \* username: str = Form(...)
      ModelField("username", "username", "str", "singleton", TRUE, None, FALSE, None, FormInfo),
      \* file: UploadFile = File(...)
      ModelField("file", "file", "UploadFile", "singleton", TRUE, None, FALSE, None, FileInfo),
      \* doc: Item = Body(..., media_type="application/xml")
      ModelField("doc", "doc", "Item", "singleton", TRUE, None, FALSE, None,
                 MediaBodyInfo("application/xml")),
      \* draft: Item = Body(..., media_type="application/xml")
      ModelField("draft", "draft", "Item", "singleton", TRUE, None, FALSE, None,
                 MediaBodyInfo("application/xml")),
      \* sheet: Item = Body(..., media_type="text/csv")
      ModelField("sheet", "sheet", "Item", "singleton", TRUE, None, FALSE, None,
                 MediaBodyInfo("text/csv")) }

InitBodyField ==
    /\ \E fs \in FieldLists(KindFields) : tree \in BodyTrees(fs)
    /\ call = [op |-> "ViewRoute"]
    /\ ret = NoRet
    /\ body_field = NotBuilt
    /\ view_route = <<>>
    /\ wrappers = {}
    /\ openapi_schema = NoSchema
    /\ threads = <<>>

\* ViewRoute.__init__ on the tree, and the decorator storing the route.
RouteBodyField ==
    /\ call.op = "ViewRoute"
    /\ ~body_field.built
    /\ LET bf == get_body_field(tree)
       IN body_field' = [built |-> TRUE, field |-> bf.field,
                         composite |-> bf.composite, fields |-> bf.fields]
    /\ tree' = after_get_body_field(tree)
    /\ view_route' = ("view" :> route_of(tree))
    /\ wrappers' = {closure("view", route_of(tree))}
    /\ UNCHANGED <<call, ret, openapi_schema, threads>>

\* The first request to the wrapper of the route.
FirstRequest ==
    /\ call.op = "ViewRoute"
    /\ "view" \in DOMAIN view_route
    /\ \E w \in wrappers :
          \E request \in Requests(view_route["view"]) : Handle(w, request)

NextBodyField == RouteBodyField \/ FirstRequest

SpecBodyField == InitBodyField /\ [][NextBodyField]_vars

(***************************************************************************)
(* Repeated values: to_args on query and header fields read from a dict,   *)
(* a QueryDict or a MultiValueDict, and to_body on form fields read from   *)
(* the MultiValueDict of a form body.                                      *)
(***************************************************************************)
RepeatFields ==
    { \* tags: List[int] = Query(...)
      ModelField("tags", "tags", "int", "list", TRUE, None, FALSE, None, QueryInfo),
      \* x_tags: List[str] = Header(...)
      ModelField("x_tags", "x-tags", "str", "list", TRUE, None, FALSE, None, HeaderInfo),
      \* name: str
      ModelField("name", "name", "str", "singleton", TRUE, None, FALSE, None, QueryInfo),
      \* x_token: str = Header(...)
      ModelField("x_token", "x-token", "str", "singleton", TRUE, None, FALSE, None, HeaderInfo) }

FormFields ==
    { \* tags: List[str] = Form(...)
      ModelField("tags", "tags", "str", "list", TRUE, None, FALSE, None, FormInfo),
      \* ages: List[int] = Form(...)
      ModelField("ages", "ages", "int", "list", TRUE, None, FALSE, None, FormInfo),
      \* username: str = Form(...)
      ModelField("username", "username", "str", "singleton", TRUE, None, FALSE, None, FormInfo) }

\* The mappings that hold a list of values under a key.
MultiValued(fs) == Mappings(AliasesOf(fs), RawLists)

InitRepeat ==
    /\ \/ \E fs \in FieldLists(RepeatFields) :
             \E param_values \in {DictV(d) : d \in Mappings(AliasesOf(fs), RawTexts)}
                                 \cup {QueryDictV(d) : d \in MultiValued(fs)}
                                 \cup {MultiValueDictV(d) : d \in MultiValued(fs)} :
                 call = [op |-> "to_args", param_fields |-> fs, param_values |-> param_values]
       \/ \E fs \in FieldLists(FormFields) :
             \E d \in MultiValued(fs) :
                 call = [op |-> "to_body", param_fields |-> fs, body |-> MultiValueDictV(d)]
    /\ ret = NoRet
    /\ tree = NoTree
    /\ body_field = NotBuilt
    /\ view_route = <<>>
    /\ wrappers = {}
    /\ openapi_schema = NoSchema
    /\ threads = <<>>

\* RequestConverter.to_args(param_fields, param_values)
RepeatToArgs ==
    /\ call.op = "to_args"
    /\ ~ret.done
    /\ LET r == to_args(call.param_fields, call.param_values)
       IN ret' = Returned(r.values, r.errors, "")
    /\ UNCHANGED <<call, tree, body_field, view_route, wrappers, openapi_schema, threads>>

\* RequestConverter.to_body(param_fields, body, is_body_form=True)
RepeatToBody ==
    /\ call.op = "to_body"
    /\ ~ret.done
    /\ LET r == to_body(call.param_fields, call.body, TRUE)
       IN ret' = Returned(r.values, r.errors, r.exc)
    /\ UNCHANGED <<call, tree, body_field, view_route, wrappers, openapi_schema, threads>>

NextRepeat == RepeatToArgs \/ RepeatToBody

SpecRepeat == InitRepeat /\ [][NextRepeat]_vars

(***************************************************************************)
(* Claims about to_args, checked under SpecToArgs.                         *)
(***************************************************************************)
Range(q) == {q[i] : i \in DOMAIN q}

\* The field's alias is a key of the raw source.
Present(field, source) == field.alias \in DOMAIN source.d

\* What validating the field on its own yields: on the raw value under its
\* alias, or on a copy of its default when the alias is absent.
OwnValidation(field, source) ==
    LET raw == look_up(field, source)
    IN  validate(field, IF raw = None THEN fresh(field.default) ELSE raw,
                 <<StrV(field.field_info.in_), StrV(field.alias)>>)

\* C1: after to_args, every required field whose alias is absent from the
\* source has a "missing" error located at (field location, field alias), and
\* every other field of the list has been looked up and validated in the same
\* call: its validated value is bound under its name, or its validation errors
\* are in the error list.
C1_MissingReportedAndOthersProcessed ==
    (call.op = "to_args" /\ ret.done) =>
        \A i \in DOMAIN call.param_fields :
            LET f == call.param_fields[i]
                own == OwnValidation(f, call.param_values)
            IN  IF f.required /\ ~Present(f, call.param_values)
                THEN ErrorWrapper("value_error.missing",
                         <<StrV(f.field_info.in_), StrV(f.alias)>>) \in Range(ret.errors)
                ELSE IF own.errors = <<>>
                THEN f.name \in DOMAIN ret.values /\ ret.values[f.name] = own.value
                ELSE Range(own.errors) \subseteq Range(ret.errors)

\* C1 witness: the first field is required and absent, and the field after it
\* has been validated and bound.
C1_Witness ==
    /\ call.op = "to_args" /\ ret.done
    /\ Len(call.param_fields) >= 2
    /\ call.param_fields[1].required
    /\ ~Present(call.param_fields[1], call.param_values)
    /\ call.param_fields[2].name \in DOMAIN ret.values
    /\ Len(ret.errors) = 1

\* All fields are scalars read from the query string.
QueryScalars(fields) ==
    \A i \in DOMAIN fields :
        fields[i].field_info.in_ = "query" /\ fields[i].shape = "singleton"

\* Exactly one entry per declared field, keyed by the parameter name.
OneEntryPerName(fields, values) ==
    /\ DOMAIN values = NamesOf(fields)
    /\ Cardinality(DOMAIN values) = Len(fields)

\* C3 as stated: for query-sourced scalar fields, when every required field is
\* present and valid, to_args returns no error and a value map with exactly one
\* entry per declared field keyed by its name.
C3_AsStated ==
    (/\ call.op = "to_args" /\ ret.done
     /\ QueryScalars(call.param_fields)
     /\ \A i \in DOMAIN call.param_fields :
            call.param_fields[i].required =>
                /\ Present(call.param_fields[i], call.param_values)
                /\ OwnValidation(call.param_fields[i], call.param_values).errors = <<>>)
    => (ret.errors = <<>> /\ OneEntryPerName(call.param_fields, ret.values))

\* C3 amended: for query-sourced scalar fields, when every required field is
\* present and every field's supplied value, or its default when it is an
\* absent optional field, is valid, to_args returns no error and a value map
\* with exactly one entry per declared field keyed by its name, not its alias.
C3_AllValidBindsEveryName ==
    (/\ call.op = "to_args" /\ ret.done
     /\ QueryScalars(call.param_fields)
     /\ \A i \in DOMAIN call.param_fields :
            /\ call.param_fields[i].required =>
                   Present(call.param_fields[i], call.param_values)
            /\ OwnValidation(call.param_fields[i], call.param_values).errors = <<>>)
    => (ret.errors = <<>> /\ OneEntryPerName(call.param_fields, ret.values))

\* C3 witness: two valid query scalars, one with an alias that is not its
\* name, both bound.
C3_Witness ==
    /\ call.op = "to_args" /\ ret.done
    /\ QueryScalars(call.param_fields)
    /\ Len(call.param_fields) = 2
    /\ \E i \in DOMAIN call.param_fields :
           call.param_fields[i].alias # call.param_fields[i].name
    /\ \A i \in DOMAIN call.param_fields :
           Present(call.param_fields[i], call.param_values)
    /\ ret.errors = <<>>
    /\ DOMAIN ret.values = NamesOf(call.param_fields)

(***************************************************************************)
(* Claims about the body field and to_body, checked under SpecToBody.      *)
(***************************************************************************)
\* The flattened body fields of the tree.
FlatBody == flat(tree).body_params

\* The body is a mapping that holds, under the alias of every field, a value
\* the field's validators accept.
ValidUnderEachKey(fields, b) ==
    /\ b.t = "dict"
    /\ \A i \in DOMAIN fields :
          /\ fields[i].alias \in DOMAIN b.d
          /\ validate(fields[i], b.d[fields[i].alias], <<>>).errors = <<>>

\* C4 as stated: with exactly one body field, not embedded, to_body on a raw
\* body that is valid for the field binds the whole raw body to the field
\* under the field's name and returns an empty error list, and any error of
\* the field is located at ("body",).
C4_AsStated ==
    (/\ call.op = "to_body" /\ ret.done
     /\ Len(FlatBody) = 1
     /\ ~FlatBody[1].field_info.embed)
    => /\ \A k \in DOMAIN ret.errors : ret.errors[k].loc[1] = StrV("body")
       /\ validate(FlatBody[1], call.body, <<>>).errors = <<>>
          => /\ ret.exc = ""
             /\ ret.errors = <<>>
             /\ DOMAIN ret.values = {FlatBody[1].name}
             /\ ret.values[FlatBody[1].name] = validate(FlatBody[1], call.body, <<>>).value

\* C5 as stated: with two or more distinct body parameters get_body_field
\* returns a composite with one property per flattened body field keyed by its
\* name, every constituent is marked embedded, and resolving a mapping that
\* holds a valid value under each field's key binds each value to the
\* parameter of that name with no errors.
C5_AsStated ==
    (/\ call.op = "to_body" /\ body_field.built
     /\ Len(FlatBody) >= 2)
    => /\ body_field.composite
       /\ DOMAIN body_field.fields = NamesOf(FlatBody)
       /\ \A i \in DOMAIN FlatBody : FlatBody[i].field_info.embed
       /\ (ret.done /\ ValidUnderEachKey(FlatBody, call.body))
          => /\ ret.exc = ""
             /\ ret.errors = <<>>
             /\ \A i \in DOMAIN FlatBody :
                   /\ FlatBody[i].name \in DOMAIN ret.values
                   /\ ret.values[FlatBody[i].name]
                        = validate(FlatBody[i], call.body.d[FlatBody[i].alias], <<>>).value

\* C6 as stated: with exactly one body field, declared with embed,
\* get_body_field returns a composite whose single property is that field, and
\* a body that supplies the value un-nested is rejected with validation errors.
C6_AsStated ==
    (/\ call.op = "to_body" /\ body_field.built
     /\ Len(FlatBody) = 1
     /\ FlatBody[1].field_info.embed)
    => /\ body_field.composite
       /\ DOMAIN body_field.fields = {FlatBody[1].name}
       /\ (/\ ret.done
           /\ validate(FlatBody[1], call.body, <<>>).errors = <<>>
           /\ call.body # None)
          => (ret.exc = "" /\ ret.errors # <<>>)

(***************************************************************************)
(* Claims about the response, checked under SpecResponse.                  *)
(***************************************************************************)
\* The returned content fails validation against the declared response field.
FailsResponseValidation ==
    /\ call.field # NoField
    /\ validate(call.field, prepare_response_content(call.response_content), <<>>).errors
         # <<>>

\* C10: when a response schema is declared and the handler's return value
\* fails validation against it, serialize_response raises an error that is not
\* a RequestValidationError, and the middleware does not turn it into a
\* response: the exception is raised again and surfaces as a server error.
C10_ResponseValidationIsServerError ==
    (call.op = "serialize_response" /\ ret.done /\ FailsResponseValidation)
    => /\ ret.raised # NoException
       /\ ret.raised.cls # "RequestValidationError"
       /\ ret.response.handled = FALSE
       /\ ret.response # NoResponse => ret.response.raised = ret.raised

\* C10 witness: an invalid return value has been refused by serialize_response
\* and the middleware has raised the exception again.
C10_Witness ==
    /\ call.op = "serialize_response" /\ ret.done
    /\ FailsResponseValidation
    /\ ret.raised.cls = "ValidationError"
    /\ ret.response # NoResponse
    /\ ~ret.response.handled
    /\ ret.response.raised = ret.raised

(***************************************************************************)
(* Claims about the wrapper, checked under Spec.                           *)
(***************************************************************************)
\* The route a request went to.
RouteOf == view_route[call.func]

\* The field errors the declared fields of the route yield on the request:
\* those of the flattened path fields, then those of the query fields.
FieldErrors ==
    LET flat_dependant == flat(RouteOf.dependant)
    IN  to_args(flat_dependant.path_params, call.request.path_kwargs).errors
        \o to_args(flat_dependant.query_params, call.request.GET).errors

\* The body of the request is not parsed, is empty, or is valid JSON.
BodyParses ==
    RouteOf.body_field = NoField \/ call.request.body = <<>>
        \/ json_loads(call.request.body).exc = ""

Handled == call.op = "inner" /\ ret.done

\* C2: the handler is invoked only when resolution returned no errors; when
\* at least one field error was accumulated, a single RequestValidationError
\* with the complete error list is raised and the handler is not called.
C2_AsStated ==
    Handled =>
        /\ call.func \in Range(ret.invoked) => FieldErrors = <<>>
        /\ (BodyParses /\ FieldErrors # <<>>) =>
              /\ ret.raised.cls = "RequestValidationError"
              /\ Range(ret.raised.errors) = Range(FieldErrors)
              /\ call.func \notin Range(ret.invoked)

\* C7: for a request that resolves without errors, a callable declared as the
\* dependency of two parameters of the handler is invoked exactly twice, and
\* the handler receives a value under each of the two parameter names.
C7_AsStated ==
    (Handled /\ call.func = "deps_view" /\ BodyParses /\ FieldErrors = <<>>) =>
        /\ Cardinality({k \in DOMAIN ret.invoked : ret.invoked[k] = "common"}) = 2
        /\ call.func \in Range(ret.invoked)
        /\ {"a", "b"} \subseteq DOMAIN ret.values

\* The body of the request is sent to a route with a body field, is not empty
\* and is not valid JSON.
MalformedBody ==
    /\ Handled
    /\ RouteOf.body_field # NoField
    /\ call.request.body # <<>>
    /\ json_loads(call.request.body).exc # ""

\* The request was answered with the body-parse error at the offset pos.
BodyParseErrorAt(pos) ==
    /\ ret.raised.cls = "RequestValidationError"
    /\ Len(ret.raised.errors) = 1
    /\ ret.raised.errors[1].loc = <<StrV("body"), IntV(pos)>>
    /\ ret.raised.errors[1].type \notin
          {"value_error.missing", "type_error.integer", "type_error.str",
           "type_error.dict", "type_error.list", "type_error.none.not_allowed",
           "value_error.number.not_gt"}
    /\ ret.invoked = <<>>
    /\ ret.response.handled
    /\ ret.response.status = 400

\* C8 as stated: whenever the route has a body field and the body is not
\* empty and not valid JSON, the wrapper answers with a body-parse error
\* located at ("body", offset), without invoking anything, and the
\* middleware makes a client error of it.
C8_AsStated ==
    MalformedBody => \E pos \in 0..Len(call.request.body) : BodyParseErrorAt(pos)

\* C8: when the body of a route that parses JSON is not empty and decodes
\* as text but is not valid JSON, the wrapper raises, before anything is
\* resolved or invoked, a RequestValidationError with the one error located at
\* ("body", offset of the syntax error), which the middleware answers with
\* 400; a body that does not decode as text is answered with the
\* APIException 422 "parse body error", which carries no location.
C8_MalformedJsonIsBodyParseError ==
    (MalformedBody /\ ~RouteOf.is_body_form) =>
        IF \E k \in DOMAIN call.request.body : call.request.body[k] = "\\xff"
        THEN /\ ret.raised = APIException(422, "parse body error")
             /\ ret.invoked = <<>>
             /\ ret.response.handled
             /\ ret.response.status = 422
        ELSE BodyParseErrorAt(json_loads(call.request.body).pos)

\* C8 witness: a body "{" sent to a route with a body field was answered with
\* the parse error at offset 1 and the status 400.
C8_Witness ==
    /\ MalformedBody
    /\ call.request.body = <<"{">>
    /\ BodyParseErrorAt(1)

\* C9: whenever the request yields at least one field validation error, the
\* error list raised holds exactly the errors of the failing fields, each
\* located by (location, alias), and the response made by the middleware
\* has a 4xx status.
C9_AsStated ==
    (Handled /\ BodyParses /\ FieldErrors # <<>>) =>
        /\ ret.raised.cls = "RequestValidationError"
        /\ Range(ret.raised.errors) = Range(FieldErrors)
        /\ ret.response.handled
        /\ ret.response.status \in 400..499

(***************************************************************************)
(* Claims about the registry, checked under Spec.                          *)
(***************************************************************************)
\* C11: handling a request leaves the registry unchanged: the same view
\* functions are registered and every route has the same dependency tree
\* (the field lists, children and request_param_name of every node) and the
\* same body field as before the request.
C11_RequestsLeaveRegistryUnchanged ==
    [][call'.op = "inner" => view_route' = view_route]_vars

\* C11 witness: a request has been handled by a route whose tree has
\* sub-dependencies with fields, and the route is still the one built at
\* registration.
C11_Witness ==
    /\ Handled
    /\ call.func = "deps_view"
    /\ Len(RouteOf.dependant.dependencies) = 2
    /\ RouteOf = ViewRoute("deps_view", <<>>, "").route

(***************************************************************************)
(* Claims about defaults, checked under SpecToArgs.                        *)
(***************************************************************************)
\* The field is not required and nothing is found for it in the source.
AbsentOptional(field, source) ==
    /\ ~field.required
    /\ ~Present(field, source)

\* The default is bound under the field's name, with no error for the field,
\* and what is bound is not the object the field specification stores.
DefaultBoundFresh(field, values, errors) ==
    /\ \A k \in DOMAIN errors : errors[k].loc[2] # StrV(field.alias)
    /\ field.name \in DOMAIN values
    /\ fresh(values[field.name])
         = validate(field, fresh(field.default), param_loc(field)).value
    /\ values[field.name].ref # "field.default"

C13_FlatIdempotentAndPure ==
    (call.op = "flat") =>
        /\ tree = call.self
        /\ call.times = 2 =>
              /\ ret.flat = flat(call.self)
              /\ ret.flat.dependencies = <<>>

\* C13 witness: a node whose sub-dependencies declare parameters of the
\* node's own classes has been flattened twice.
C13_Witness ==
    /\ call.op = "flat" /\ call.times = 2
    /\ tree.query_params # <<>>
    /\ Len(ret.flat.query_params) > Len(tree.query_params)
    /\ \E i \in DOMAIN tree.dependencies : tree.dependencies[i].dependencies # <<>>

\* The five parameter lists of a node.
ParamLists ==
    {"path_params", "query_params", "header_params", "cookie_params", "body_params"}

RECURSIVE Visit(_, _)
RECURSIVE VisitAll(_, _)
\* The fields of one list met on a depth-first walk that visits a node before
\* its sub-dependencies and the sub-dependencies in declaration order.
Visit(node, list) == node[list] \o VisitAll(node.dependencies, list)

VisitAll(nodes, list) ==
    IF nodes = <<>> THEN <<>>
    ELSE Visit(Head(nodes), list) \o VisitAll(Tail(nodes), list)

\* C16: each list of the node flat() returns holds the fields of that list in
\* depth-first pre-order, the node's own first and then each sub-dependency's
\* flattened fields in declaration order; no field is lost and none changes
\* list.
C16_FlatIsPreOrder ==
    (call.op = "flat" /\ call.times = 1) =>
        \A list \in ParamLists : ret.flat[list] = Visit(call.self, list)

\* C16 witness: the handler, its first sub-dependency, that one's own
\* sub-dependency and the handler's second sub-dependency each declare a
\* query field, and flat() returned the four in that order.
C16_Witness ==
    /\ call.op = "flat" /\ call.times = 1
    /\ Len(call.self.dependencies) = 2
    /\ Len(call.self.dependencies[1].dependencies) = 1
    /\ ret.flat.query_params
         = call.self.query_params
           \o call.self.dependencies[1].query_params
           \o call.self.dependencies[1].dependencies[1].query_params
           \o call.self.dependencies[2].query_params
    /\ Len(ret.flat.query_params) = 4
    /\ \A i \in 1..4 : ret.flat.query_params[i].name = FirstNames[i]

(***************************************************************************)
(* Claims about get_body_field, checked under SpecToBody.                  *)
(***************************************************************************)
\* The flattened body fields of the tree get_body_field was asked about.
FlatBodyParams == flat(tree).body_params

\* get_body_field returned one of the declared fields as it was declared.
ReturnedDeclared ==
    /\ body_field.built
    /\ ~body_field.composite
    /\ body_field.field # NoField

\* C15 as stated: get_body_field returns a declared field unmodified only
\* when the flattened tree holds exactly one body field and that field is
\* not embedded; with two or more body fields, whatever their names, it
\* returns a synthesized composite, and with none it returns no field.
C15_AsStated ==
    body_field.built =>
        /\ ReturnedDeclared =>
              /\ Len(FlatBodyParams) = 1
              /\ ~body_field.field.field_info.embed
        /\ Len(FlatBodyParams) >= 2 => body_field.composite
        /\ Len(FlatBodyParams) = 0 => body_field.field = NoField

(***************************************************************************)
(* Claims about registration, checked under Spec.                          *)
(***************************************************************************)
\* The view function that was just decorated declares no parameter that
\* add_special_param_field takes for the request.
DeclaresNoRequest ==
    \A i \in DOMAIN Signature[call.func] : Signature[call.func][i].name # "request"

\* The decoration raised and the registry is what it was before.
RegistrationFailed == ret.exc # "" /\ call.func \notin DOMAIN view_route

\* C14 as stated: decorating a view function that declares no request
\* parameter raises, and no route is stored for it.
C14_AsStated ==
    (call.op = "decorator" /\ ret.done /\ DeclaresNoRequest) => RegistrationFailed

\* C14: decorating a view function that declares no parameter at all, or a
\* method whose only parameter is self, raises and stores no route; a view
\* function that declares other parameters but no request parameter is
\* registered like any other, with no request parameter name recorded.
C14_NoParametersFailsRegistration ==
    [][(call'.op = "decorator" /\ call'.dependencies = <<>> /\ call'.response_model = ""
            /\ \A i \in DOMAIN Signature[call'.func] :
                  Signature[call'.func][i].name # "request")
        => IF \A i \in DOMAIN Signature[call'.func] : Signature[call'.func][i].name = "self"
           THEN ret'.exc # "" /\ view_route' = view_route
           ELSE /\ ret'.exc = ""
                /\ DOMAIN view_route' = DOMAIN view_route \cup {call'.func}
                /\ view_route'[call'.func].dependant.request_param_name = ""]_vars

\* C14 witness: a method whose only parameter is self has been decorated,
\* that raised, and the routes registered before are the only ones.
C14_Witness ==
    /\ call.op = "decorator" /\ ret.done
    /\ call.func = "self_only_view"
    /\ RegistrationFailed
    /\ DOMAIN view_route = {"func_view"}

(***************************************************************************)
(* Claims about the composite body field, checked under SpecBodyField.     *)
(***************************************************************************)
\* get_body_field synthesized a composite from the flattened body fields.
Synthesized == body_field.built /\ body_field.composite

\* Some flattened body field is of the class cls itself.
SomeOfClass(cls) ==
    \E i \in DOMAIN FlatBodyParams : FlatBodyParams[i].field_info.cls = cls

\* C17: a synthesized composite body field is required if and only if at
\* least one of the flattened body fields is required.
C17_CompositeRequiredIffAnyRequired ==
    Synthesized =>
        (body_field.field.required
            <=> \E i \in DOMAIN FlatBodyParams : FlatBodyParams[i].required)

\* C17 witness: a composite synthesized from one required and one optional
\* field is required.
C17_Witness ==
    /\ Synthesized
    /\ body_field.field.required
    /\ \E i, j \in DOMAIN FlatBodyParams :
          FlatBodyParams[i].required /\ ~FlatBodyParams[j].required

\* The body field of the route is of form kind, file kind included.
FormKind == body_field.field.field_info.cls \in {"Form", "File"}

\* C18: the class of a synthesized composite is File if any flattened body
\* field is a File, else Form if any is a Form, else Body; and the wrapper of
\* a route with a body field reads the form data of the request exactly when
\* the body field of the route is of form kind, file kind included, and the
\* JSON of the request body otherwise, so that a body that is not valid JSON
\* is a body-parse error on a JSON route only.
C18_KindPrecedenceAndParsing ==
    /\ Synthesized =>
          body_field.field.field_info.cls
              = IF SomeOfClass("File") THEN "File"
                ELSE IF SomeOfClass("Form") THEN "Form"
                ELSE "Body"
    /\ (body_field.built /\ "view" \in DOMAIN view_route) =>
          /\ view_route["view"].body_field = body_field.field
          /\ view_route["view"].is_body_form
                <=> (body_field.field # NoField /\ FormKind)
    /\ MalformedBody =>
          IF FormKind
          THEN ret.raised.cls \notin {"RequestValidationError", "APIException"}
          ELSE \/ ret.raised = APIException(422, "parse body error")
               \/ BodyParseErrorAt(json_loads(call.request.body).pos)

\* C18 witness: a composite synthesized from a file field and a form field is
\* of file kind, and a request whose body is not JSON passed its body parsing.
C18_Witness ==
    /\ Synthesized
    /\ SomeOfClass("File") /\ SomeOfClass("Form")
    /\ body_field.field.field_info.cls = "File"
    /\ MalformedBody
    /\ call.request.body = <<"{">>
    /\ ret.raised.cls = "TypeError"

\* The flattened body fields hold a JSON field together with a form or file
\* field.
MixedKinds == SomeOfClass("Body") /\ (SomeOfClass("Form") \/ SomeOfClass("File"))

CustomMediaTypes ==
    {FlatBodyParams[i].field_info.media_type : i \in DOMAIN FlatBodyParams}
        \ {default_media_type("Body")}

\* The media types of all the flattened body fields.
MediaTypes == {FlatBodyParams[i].field_info.media_type : i \in DOMAIN FlatBodyParams}

\* The composite is of JSON kind.
JsonComposite == Synthesized /\ body_field.field.field_info.cls = "Body"

Analysed == call.op = "new_dependant" /\ ret.done

\* The parameters of the signature that are neither self nor named request.
Declared == SelectSeq(call.signature, LAMBDA p : p.name \notin {"self", "request"})

\* The parameter carries no explicit location marker and no Depends.
Unmarked(p) == p.default.kind \in {"empty", "value"} /\ p.type_ # "HttpRequest"

\* The parameter's type is a scalar, or a sequence of scalars.
ScalarTyped(p) == p.shape = "singleton" /\ p.type_ # "Item"

ScalarSequenceTyped(p) == p.shape = "list" /\ p.type_ # "Item"

\* A field named name is in the list.
Holds(list, name) == \E i \in DOMAIN list : list[i].name = name

\* The lists of the node that hold a field named name.
ListsHolding(node, name) ==
    {l \in {"path_params", "query_params", "header_params", "cookie_params",
            "body_params"} : Holds(node[l], name)}

\* The parameter is a sequence of scalars explicitly declared as query or
\* header.
DeclaredQueryOrHeaderSequence(p) ==
    /\ p.default.kind = "FieldInfo"
    /\ p.default.cls \in {"Query", "Header"}
    /\ ScalarSequenceTyped(p)

\* C21 as stated: for a signature whose parameters carry no location marker,
\* or are sequences of scalars declared as query or header, new_dependant
\* succeeds and puts every scalar in the query list with the parameter's own
\* default, every compound type and every unmarked sequence of scalars in the
\* body list, and every declared sequence in the list of its marker.
C21_AsStated ==
    (/\ Analysed
     /\ Declared # <<>>
     /\ \A i \in DOMAIN Declared :
           Unmarked(Declared[i]) \/ DeclaredQueryOrHeaderSequence(Declared[i]))
    => /\ ret.exc = ""
       /\ \A i \in DOMAIN Declared :
             LET p == Declared[i]
             IN  ListsHolding(tree, p.name)
                   = IF DeclaredQueryOrHeaderSequence(p)
                     THEN {IF p.default.cls = "Query" THEN "query_params"
                           ELSE "header_params"}
                     ELSE IF ScalarTyped(p) THEN {"query_params"}
                     ELSE {"body_params"}

\* The location a list of the node stands for agrees with the marker of the
\* field.
LocationAgrees(list, field) ==
    CASE list = "path_params" -> field.field_info.in_ = "path"
      [] list = "query_params" -> field.field_info.in_ = "query"
      [] list = "header_params" -> field.field_info.in_ = "header"
      [] list = "cookie_params" -> field.field_info.in_ = "cookie"
      [] OTHER -> isinstance_Body(field.field_info)

\* The parameter's type makes it a body field, and its default is a marker of
\* a location that is not the body.
BodyTypedWithOtherLocation(p) ==
    /\ p.default.kind = "FieldInfo"
    /\ p.default.cls \in {"Path", "Query", "Header", "Cookie"}
    /\ ~ScalarTyped(p)
    /\ ~DeclaredQueryOrHeaderSequence(p)

\* C22 as stated: in a node new_dependant built, every field is in exactly
\* one list and the location of that list is the field's declared location,
\* so the body list holds no field with a path, query, header or cookie
\* marker; a parameter typed as body whose default is a marker of another
\* location makes new_dependant raise.
C22_AsStated ==
    Analysed =>
        /\ ret.exc = "" =>
              \A list \in ParamLists : \A i \in DOMAIN tree[list] :
                  /\ LocationAgrees(list, tree[list][i])
                  /\ ListsHolding(tree, tree[list][i].name) = {list}
        /\ (\E i \in DOMAIN Declared : BodyTypedWithOtherLocation(Declared[i]))
              => ret.exc # ""

\* The parameter matches the request convention by its name or by its type.
RequestLike(p) == p.name = "request" \/ p.type_ = "HttpRequest"

\* C23 as stated: a signature that declares, self apart, only a parameter
\* matching the request convention by name or by type is analysed without
\* error, the parameter's name is recorded as request_param_name and no list
\* of the node holds a field.
C23_AsStated ==
    (/\ Analysed
     /\ \E i \in DOMAIN call.signature : RequestLike(call.signature[i])
     /\ \A i \in DOMAIN call.signature :
           call.signature[i].name = "self" \/ RequestLike(call.signature[i]))
    => /\ ret.exc = ""
       /\ \E i \in DOMAIN call.signature :
             /\ RequestLike(call.signature[i])
             /\ tree.request_param_name = call.signature[i].name
       /\ \A list \in ParamLists : tree[list] = <<>>

\* The parameter declares a sub-dependency on a callable without parameters.
DependsOnParameterless(p) ==
    /\ p.default.kind = "Depends"
    /\ Signature[p.default.dependency] = <<>>

\* C27 as stated: a handler that declares, next to self and request, a
\* sub-dependency whose callable takes no parameters is analysed without
\* error, and the child node of that sub-dependency has empty field lists
\* and no children.
C27_AsStated ==
    (/\ Analysed
     /\ \E i \in DOMAIN call.signature : DependsOnParameterless(call.signature[i])
     /\ \A i \in DOMAIN call.signature :
           \/ call.signature[i].name \in {"self", "request"}
           \/ DependsOnParameterless(call.signature[i]))
    => /\ ret.exc = ""
       /\ Len(tree.dependencies) = 1
       /\ \A list \in ParamLists : tree.dependencies[1][list] = <<>>
       /\ tree.dependencies[1].dependencies = <<>>

(***************************************************************************)
(* Claims about ViewRoute.__init__, checked under SpecRoute                *)
(***************************************************************************)
\* The route has been built without error.
RouteBuilt == call.op = "ViewRoute" /\ ret.done /\ ret.exc = ""

RECURSIVE DependsOf(_)
\* The callables of the Depends defaults of the parameters, in parameter order.
DependsOf(signature_params) ==
    IF signature_params = <<>> THEN <<>>
    ELSE IF Head(signature_params).default.kind = "Depends"
    THEN <<Head(signature_params).default.dependency>> \o DependsOf(Tail(signature_params))
    ELSE DependsOf(Tail(signature_params))

\* C24: after ViewRoute is constructed the children of the root are the
\* sub-dependants of the decorator's dependencies, in the order they were
\* declared, followed by those of the signature's Depends parameters, in
\* parameter order.
C24_DecoratorDependenciesFirst ==
    RouteBuilt =>
        LET expected == call.dependencies \o DependsOf(call.signature)
        IN  /\ Len(tree.dependencies) = Len(expected)
            /\ \A i \in DOMAIN expected : tree.dependencies[i].call = expected[i]

\* Two different dependencies on the decorator and two on the signature.
C24_Witness ==
    /\ RouteBuilt
    /\ call.dependencies = <<"pagination", "common">>
    /\ DependsOf(call.signature) = <<"common", "pagination">>
    /\ Len(tree.dependencies) = 4

(***************************************************************************)
(* Further claims about to_body, checked under SpecToBody                  *)
(***************************************************************************)
\* to_body has been called on a composite body: the fields are read under
\* their aliases from a body that is a mapping or is absent.
CompositeResolved ==
    /\ call.op = "to_body" /\ ret.done
    /\ FlatBody # <<>>
    /\ ~field_alias_omitted(FlatBody)
    /\ \A i, j \in DOMAIN FlatBody : i # j => FlatBody[i].alias # FlatBody[j].alias
    /\ call.body = None \/ call.body.t = "dict"

\* The body holds nothing under the alias of the field.
AliasAbsent(field) == call.body = None \/ field.alias \notin DOMAIN call.body.d

\* The errors to_body returned at the location ("body", alias) of the field.
ErrorsAt(field) ==
    {k \in DOMAIN ret.errors : ret.errors[k].loc = <<StrV("body"), StrV(field.alias)>>}

\* C25 as stated: in the composite case to_body treats each field as to_args
\* does: a required field whose alias is absent yields exactly one "missing"
\* error at ("body", alias) and no further error, an absent optional field is
\* bound to its default, and a field that is present with a valid value is
\* validated and bound with no error.
C25_AsStated ==
    CompositeResolved =>
        /\ ret.exc = ""
        /\ \A i \in DOMAIN FlatBody :
              LET field == FlatBody[i]
              IN  /\ (AliasAbsent(field) /\ field.required)
                     => /\ Cardinality(ErrorsAt(field)) = 1
                        /\ \A k \in ErrorsAt(field) :
                              ret.errors[k].type = "value_error.missing"
                  /\ (AliasAbsent(field) /\ ~field.required)
                     => /\ ErrorsAt(field) = {}
                        /\ field.name \in DOMAIN ret.values
                        /\ ret.values[field.name] = field.default
                  /\ (/\ ~AliasAbsent(field)
                      /\ validate(field, call.body.d[field.alias], <<>>).errors = <<>>)
                     => /\ ErrorsAt(field) = {}
                        /\ field.name \in DOMAIN ret.values
                        /\ ret.values[field.name]
                             = validate(field, call.body.d[field.alias], <<>>).value

\* What to_body reads for the only field when its alias is omitted, else what
\* the body holds under the alias of the field.
SuppliedInBody(field) ==
    IF field_alias_omitted(FlatBody) THEN call.body ELSE call.body.d[field.alias]

\* The body supplies a value for the field.
PresentInBody(field) ==
    IF field_alias_omitted(FlatBody) THEN call.body # None
    ELSE call.body.t = "dict" /\ field.alias \in DOMAIN call.body.d

\* C28 as stated: to_body reports "missing" only for an absent alias or an
\* absent body: a required field that is present with a valid falsy value is
\* validated and bound, and no "missing" error is reported.
C28_AsStated ==
    (call.op = "to_body" /\ ret.done)
    => \A i \in DOMAIN FlatBody :
          LET field == FlatBody[i]
          IN  (/\ field.required
               /\ PresentInBody(field)
               /\ ~Truthy(SuppliedInBody(field))
               /\ validate(field, SuppliedInBody(field), <<>>).errors = <<>>)
              => /\ ret.exc = ""
                 /\ \A k \in DOMAIN ret.errors :
                       ret.errors[k].type # "value_error.missing"
                 /\ field.name \in DOMAIN ret.values
                 /\ ret.values[field.name] = validate(field, SuppliedInBody(field), <<>>).value

(***************************************************************************)
(* Claims about repeated values, checked under SpecRepeat                  *)
(***************************************************************************)
\* The raw source of the call: the mapping given to to_args, the form body
\* given to to_body.
RawSource == IF call.op = "to_args" THEN call.param_values ELSE call.body

\* The raw source can hold several values under one key.
HoldsValueLists == isinstance_MultiValueDict(RawSource)

\* C26 as stated: for a sequence-typed field whose alias the raw source holds
\* valid values under, query and header fields and the fields of a
\* multi-value form body alike, the resolver binds the list of all those
\* values; for any other field it binds a single value, the last one.
C26_AsStated ==
    (call.op \in {"to_args", "to_body"} /\ ret.done /\ HoldsValueLists)
    => \A i \in DOMAIN call.param_fields :
          LET field == call.param_fields[i]
              all_values == getlist(RawSource, field.alias)
              one_value == get(RawSource, field.alias)
              read == IF field.shape = "list" THEN all_values ELSE one_value
          IN  (/\ field.alias \in DOMAIN RawSource.d
               /\ validate(field, read, <<>>).errors = <<>>)
              => /\ ret.exc = ""
                 /\ field.name \in DOMAIN ret.values
                 /\ ret.values[field.name] = validate(field, read, <<>>).value

(***************************************************************************)
(* Claims about wrappers and the registry, checked under SpecRegistry      *)
(***************************************************************************)
\* C29 as stated: whenever a wrapper has handled a request, the body field
\* and the form flag it used are those of the route that is stored for its
\* function, the route whose dependency tree it resolved against, also when
\* the function has been decorated more than once.
C29_AsStated ==
    (call.op = "inner" /\ ret.done)
    => /\ call.wrapper.body_field = view_route[call.func].body_field
       /\ call.wrapper.is_body_form = view_route[call.func].is_body_form

(***************************************************************************)
(* Claims about Autowired.openapi, checked under SpecOpenapi               *)
(***************************************************************************)
\* The threads whose call has generated a schema.
Generated == {t \in DOMAIN threads : threads[t].schema # NoSchema}

\* The threads whose call has returned.
Done == {t \in DOMAIN threads : threads[t].pc = "done"}

\* The schema is generated at most once and every call that has returned
\* returned the same schema object.
OneSchema ==
    /\ Cardinality(Generated) <= 1
    /\ \A t, u \in Done : threads[t].returned = threads[u].returned

\* Once a schema is stored no step generates a schema or changes the path of
\* a registered route.
StoredIsFinal ==
    openapi_schema # NoSchema
    => /\ Generated' = Generated
       /\ \A r \in DOMAIN view_route : view_route'[r].path = view_route[r].path

\* C30 as stated: across every interleaving of concurrent calls of openapi()
\* the schema is generated at most once and every call returns the same
\* cached schema, and once a schema has been stored no later call generates
\* one again or changes the path of a registered route.
C30_AsStated == []OneSchema /\ [][StoredIsFinal]_vars

====
